---- MODULE Spec2Model ----
(***************************************************************************)
(* Model of the indexing and retrieval core of code-context:               *)
(*   packages/core/src/indexer.ts            (CodeIndexer)                 *)
(*   packages/core/src/vectordb/milvus-vectordb.ts (MilvusVectorDatabase)  *)
(* A string is a sequence of tokens (<<"a.java">>, <<"a", ":", "1">>), so  *)
(* that concatenation, parsing and path arithmetic are computed, not       *)
(* assumed.  A JavaScript number is a record with a nan flag.              *)
(***************************************************************************)
EXTENDS Integers, Sequences, FiniteSets, TLC

(***************************************************************************)
(* Bounds of the model.                                                    *)
(***************************************************************************)
MaxContent == 2        \* distinct contents a file can take (0 is "absent")
MaxChunks == 2         \* the splitter emits 0..MaxChunks chunks per file
MaxCalls == 2          \* API calls per behaviour
MaxEdits == 1          \* edits of the file tree per behaviour
MaxFailures == 2       \* failing reads, enrichment, embedding and database calls per behaviour
MaxDimension == 2      \* vector dimensions of the embedding providers: 1..MaxDimension
MaxPatterns == 2       \* ignore patterns a caller supplies at once

VARIABLES
    envBatch,        \* process.env.EMBEDDING_BATCH_SIZE
    envComments,     \* process.env.ENABLE_COMMENTS === 'true'
    tree,            \* the files on disk: relative path -> content (0: absent)
    exists,          \* the vector database has the collection of the codebase
    coll,            \* the documents of the collection
    snapshotFile,    \* the persisted snapshot: <<>> (no file) or <<map>>
    synchronizers,   \* this.synchronizers: <<>> or <<fileHashes>> of the codebase
    op,              \* the API call in progress: "none", "index", "reindex"
    pc,              \* its position
    filePaths,       \* processFileList: the files to process
    fileIdx,         \* processFileList: i (1-based)
    chunks,          \* processFileList: the chunks of the current file
    chunkIdx,        \* processFileList: position in chunks of the next chunk
    chunkBuffer,     \* processFileList: chunkBuffer
    processedFiles,  \* processFileList: processedFiles
    totalChunks,     \* processFileList: totalChunks
    delta,           \* reindexByChange: { added, removed, modified }
    delIdx,          \* reindexByChange: position in removed ++ modified
    ret,             \* outcome of the last API call
    ncalls,          \* API calls made so far
    nedits,          \* tree edits made so far
    nfail,           \* failed outbound calls and reads so far
    flushLog,        \* history: the flushes of this call, each with its batch and its attempts
    appendLog,       \* history: the chunks this call pushed on chunkBuffer, in order
    insertLog,       \* history: the document lists this call handed to insert, in order
    inserted,        \* history: the documents this call inserted
    skipped,         \* history: the files this call could not read
    failures,        \* history: a read, embed, insert, query or delete failed in this call
    deleted,         \* history: ids this call deleted
    prevSnapshot,    \* history: the persisted snapshot the last delta started from
    streak,          \* history: consecutive failure-free indexCodebase runs from a clean collection
    idsFirst,        \* history: ids in the collection after the first run of the streak
    indexedTree,     \* history: <<tree>> as the last indexCodebase indexed it, until a reindexByChange has followed
    owed,            \* history: delta of a reindexByChange that failed partway
    processedChanges, \* reindexByChange: processedChanges
    embedding,       \* this.embedding.getDimension()
    dimension,       \* the dimension the collection was created with (0: no collection)
    ignorePatterns,  \* this.ignorePatterns
    userPatterns,    \* history: the ignore patterns the caller supplied last
    disk,            \* the files below the codebase, for getCodeFiles
    foundFiles,       \* what getCodeFiles returned, and the patterns it ran with
    progress,        \* the percentages this call passed to progressCallback, in order
    config,          \* enableSparseVectors of the indexer, enableBM25 of the adapter,
                     \* and whether the collection has the sparse field
    similarity,      \* the score the database gives each document for the query at hand
    searchCall,      \* the last search call: its entry point and arguments
    searchResults,   \* what it came to: status, hits, outcomes of its client.search requests
    idChunks,        \* two chunks handed to processChunkBatch, with their batch
                     \* positions and the texts embedded for them
    idDocs,          \* the documents built for them
    fullCode,        \* EnhancedAstSplitter.split: code
    originalChunks,  \* EnhancedAstSplitter.split: originalChunks
    enhancedChunks,  \* what split returned: <<>> (not called) or <<chunks>>
    commentInput,    \* generateChunkComments: chunks
    resultChunks,    \* generateChunkComments: resultChunks
    groupStart,      \* generateChunkComments: i, the first batch of the group in flight
    pendingBatches,  \* processCommentBatch calls of the group that have not settled
    commentsPc,      \* generateChunkComments: "idle", "awaiting", "done"
    completionOrder, \* history: the batch numbers in the order their calls settled
    commentDocs,     \* the documents processChunkBatch built after the call
    batchChunks,     \* processChunkBatch: chunks
    batchTexts,      \* processChunkBatch: enhancedChunkContents
    batchEmbeddings, \* processChunkBatch: <<>> or <<embeddings>> once embedBatch has answered
    batchRequests,   \* history: the document lists handed to vectorDatabase.insert
    batchStored,     \* the documents the collection holds
    batchPc,         \* processChunkBatch: "embedding", "inserting", "returned", "threw"
    embeddingQueue,  \* RateLimitedVoyageEmbedding: embeddingQueue
    processingQueue, \* RateLimitedVoyageEmbedding: processingQueue
    tokenCount,      \* RateLimitedVoyageEmbedding: tokenCount
    requestCount,    \* RateLimitedVoyageEmbedding: requestCount
    delayElapsed,    \* Date.now() - lastEmbedTime >= MIN_REQUEST_DELAY_MS
    delayTimer,      \* the timer of the rate limit wait is pending
    retryTimer,      \* the timer set after a 429 is pending
    nextTimers,      \* pending timers set after a successful call
    inFlight,        \* the requests handed to super.embedBatch that have not settled
    nextRequest,     \* history: number of the next request a caller places
    n429,            \* history: 429 answers so far
    sentLog,         \* history: the calls of super.embedBatch, in order
    resolved,        \* history: requests whose promise was resolved
    rejected         \* history: requests whose promise was rejected

vars == <<envBatch, envComments, tree, exists, coll, snapshotFile, synchronizers,
          op, pc, filePaths, fileIdx, chunks, chunkIdx, chunkBuffer,
          processedFiles, totalChunks, delta, delIdx, ret, ncalls, nedits,
          nfail, flushLog,
          appendLog, insertLog, inserted, skipped, failures, deleted, prevSnapshot,
          streak, idsFirst, indexedTree, owed, processedChanges, progress,
          embedding, dimension, ignorePatterns, userPatterns, disk, foundFiles,
          config, similarity, searchCall, searchResults, idChunks, idDocs,
          fullCode, originalChunks, enhancedChunks, commentInput, resultChunks,
          groupStart, pendingBatches, commentsPc, completionOrder, commentDocs,
          batchChunks, batchTexts, batchEmbeddings, batchRequests, batchStored,
          batchPc, embeddingQueue, processingQueue, tokenCount, requestCount,
          delayElapsed, delayTimer, retryTimer, nextTimers, inFlight,
          nextRequest, n429, sentLog, resolved, rejected>>

splitVars == <<fullCode, originalChunks, enhancedChunks>>

commentVars == <<commentInput, resultChunks, groupStart, pendingBatches,
                 commentsPc, completionOrder, commentDocs>>

batchVars == <<batchChunks, batchTexts, batchEmbeddings, batchRequests,
               batchStored, batchPc>>

rateVars == <<embeddingQueue, processingQueue, tokenCount, requestCount,
              delayElapsed, delayTimer, retryTimer, nextTimers, inFlight,
              nextRequest, n429, sentLog, resolved, rejected>>

auxVars == <<splitVars, commentVars, batchVars, rateVars>>

ignoreVars == <<ignorePatterns, userPatterns, disk, foundFiles>>

collectionVars == <<embedding, dimension>>

progressVars == <<processedChanges, progress>>

searchVars == <<config, similarity, searchCall, searchResults>>

idVars == <<idChunks, idDocs>>

pipelineVars ==
    <<envBatch, envComments, tree, exists, coll, snapshotFile, synchronizers,
      op, pc, filePaths, fileIdx, chunks, chunkIdx, chunkBuffer,
      processedFiles, totalChunks, delta, delIdx, ret, ncalls, nedits,
      nfail, flushLog,
      appendLog, insertLog, inserted, skipped, failures, deleted, prevSnapshot,
      streak, idsFirst, indexedTree, owed, processedChanges, progress,
      embedding, dimension, ignorePatterns, userPatterns, disk, foundFiles>>

(***************************************************************************)
(* JavaScript numbers, parseInt and Math.max.                              *)
(***************************************************************************)
Num(v) == [nan |-> FALSE, val |-> v]

NaN == [nan |-> TRUE, val |-> 0]

\* Math.max(a, b): NaN if either argument is NaN
MathMax(a, b) ==
    IF a.nan \/ b.nan THEN NaN ELSE IF a.val >= b.val THEN a ELSE b

\* a >= b on JavaScript numbers: false whenever an operand is NaN
GreaterEq(a, b) == ~a.nan /\ ~b.nan /\ a.val >= b.val

DigitChars == <<"0", "1", "2", "3", "4", "5", "6", "7", "8", "9">>

IsDigit(c) == \E k \in 1..10 : DigitChars[k] = c

DigitVal(c) == (CHOOSE k \in 1..10 : DigitChars[k] = c) - 1

RECURSIVE LeadingDigits(_)
\* the longest prefix of s made of decimal digits
LeadingDigits(s) ==
    IF s = <<>> \/ ~IsDigit(Head(s)) THEN <<>>
    ELSE <<Head(s)>> \o LeadingDigits(Tail(s))

RECURSIVE DigitsValue(_, _)
DigitsValue(s, acc) ==
    IF s = <<>> THEN acc ELSE DigitsValue(Tail(s), 10 * acc + DigitVal(Head(s)))

RECURSIVE SkipSpaces(_)
SkipSpaces(s) == IF s # <<>> /\ Head(s) = " " THEN SkipSpaces(Tail(s)) ELSE s

\* parseInt(s, 10): leading white space, an optional sign, then the leading
\* decimal digits; NaN when there is no digit
parseInt(s) ==
    LET t == SkipSpaces(s)
        signed == t # <<>> /\ Head(t) \in {"-", "+"}
        body == IF signed THEN Tail(t) ELSE t
        ds == LeadingDigits(body)
        v == DigitsValue(ds, 0)
    IN IF ds = <<>> THEN NaN
       ELSE IF signed /\ Head(t) = "-" THEN Num(0 - v) ELSE Num(v)

RECURSIVE Digits(_)
\* decimal representation of a natural number, as `${n}` produces it
Digits(n) ==
    IF n < 10 THEN <<DigitChars[n + 1]>>
    ELSE Digits(n \div 10) \o <<DigitChars[(n % 10) + 1]>>

\* x || d for a string: the empty (or unset) string is falsy
OrDefault(s, d) == IF s = <<>> THEN d ELSE s

\* x || 0 for a line number
OrZero(n) == IF n = 0 THEN 0 ELSE n

(***************************************************************************)
(* The codebase: two source files under one root.                          *)
(***************************************************************************)
CodebasePath == <<"/repo">>

FileA == <<"a.java">>

FileB == <<"b.java">>

\* a file of the codebase that is no source file
FileNotes == <<"notes.txt">>

Paths == {FileA, FileB}

\* order in which readdir lists the directory entries
PathOrder == <<FileA, FileB, FileNotes>>

Contents == 1..MaxContent

Trees == [Paths -> 0..MaxContent]

\* values of process.env.EMBEDDING_BATCH_SIZE (<<>>: unset or empty)
EnvBatchValues == {<<>>, <<"0">>, <<"2">>, <<"-", "5">>, <<"a", "b", "c">>}

\* path.join(base, rel)
PathJoin(base, rel) == base \o <<"/">> \o rel

\* path.relative(base, abs) for a path below base
PathRelative(base, abs) == SubSeq(abs, Len(base) + 2, Len(abs))

\* the last tokens of the file names that end in .java
JavaNames == {"a.java", "b.java", "x.java"}

\* path.extname of the model's file names
ExtName(p) ==
    LET name == p[Len(p)]
    IN IF name \in JavaNames THEN <<".java">> ELSE <<>>

DEFAULT_SUPPORTED_EXTENSIONS == {<<".java">>}

SeqOfPaths(S) == SelectSeq(PathOrder, LAMBDA p : p \in S)

Range(s) == {s[k] : k \in 1..Len(s)}

(***************************************************************************)
(* The splitter: split(content, language, filePath).  The chunk count and  *)
(* the chunk texts depend on the content only; the spans are consecutive.  *)
(***************************************************************************)
NumChunks(c) == c % (MaxChunks + 1)

ChunkText(c, k) == <<"v">> \o Digits(c) \o <<"k">> \o Digits(k)

Split(c, filePath) ==
    [k \in 1..NumChunks(c) |->
        [content |-> ChunkText(c, k), filePath |-> filePath,
         startLine |-> 2 * k - 1, endLine |-> 2 * k]]

\* chunks the splitter emits for the file at relative path p in tree t
FileChunks(t, p) ==
    IF t[p] = 0 THEN {} ELSE Range(Split(t[p], PathJoin(CodebasePath, p)))

(***************************************************************************)
(* Documents.                                                              *)
(***************************************************************************)
\* embedding.embedBatch: one vector per text, remembered by the text it embeds
Embed(text) == [of |-> text, dim |-> embedding]

\* the text generateChunkComments puts in place of a chunk's content
Enriched(content) == <<"#">> \o content

\* an id that also depends on the run, as a counter or a timestamp would make it
generateIdPerRun(relativePath, startLine, endLine, content) ==
    <<"chunk_">> \o relativePath \o <<":">> \o Digits(startLine) \o <<":">>
        \o Digits(endLine) \o <<":">> \o content \o <<"@">> \o Digits(ncalls)

\* generateId: "chunk_" + sha256(`${relativePath}:${startLine}:${endLine}:${content}`);
\* the hash is injective, so the id is the hashed string itself
generateId(relativePath, startLine, endLine, content) ==
    <<"chunk_">> \o relativePath \o <<":">> \o Digits(startLine) \o <<":">>
        \o Digits(endLine) \o <<":">> \o content

\* a document built from the text that was embedded instead of the chunk
MakeDocumentOfEmbedded(chunk, index, vector) ==
    LET relativePath == PathRelative(CodebasePath, chunk.filePath)
    IN [id |-> generateId(relativePath, OrZero(chunk.startLine),
                          OrZero(chunk.endLine), vector.of),
        vector |-> vector,
        content |-> vector.of,
        relativePath |-> relativePath,
        startLine |-> OrZero(chunk.startLine),
        endLine |-> OrZero(chunk.endLine),
        fileExtension |-> ExtName(chunk.filePath),
        chunkIndex |-> index - 1]

\* the document processChunkBatch builds for chunks[index] (index is 1-based here)
MakeDocument(chunk, index, vector) ==
    LET relativePath == PathRelative(CodebasePath, chunk.filePath)
    IN [id |-> generateId(relativePath, OrZero(chunk.startLine),
                          OrZero(chunk.endLine), chunk.content),
        vector |-> vector,
        content |-> chunk.content,
        relativePath |-> relativePath,
        startLine |-> OrZero(chunk.startLine),
        endLine |-> OrZero(chunk.endLine),
        fileExtension |-> ExtName(chunk.filePath),
        chunkIndex |-> index - 1]

\* documents built from the last chunk to the first
DocumentsReversed(chs, texts) ==
    [k \in 1..Len(chs) |->
        MakeDocument(chs[Len(chs) + 1 - k], Len(chs) + 1 - k,
                     Embed(texts[Len(chs) + 1 - k]))]

\* processChunkBatch up to the insert: embed texts, one document per chunk
Documents(chs, texts) ==
    [k \in 1..Len(chs) |-> MakeDocument(chs[k], k, Embed(texts[k]))]

Ids(docs) == {d.id : d \in docs}

\* MilvusVectorDatabase.insert: the rows are added to the collection
insert(docs, documents) == docs \cup Range(documents)

\* a query that finds no document
queryOfNoFile(docs, file) == {}

\* MilvusVectorDatabase.query with the filter relativePath == "file"
query(docs, file) == {d \in docs : d.relativePath = file}

\* a delete that removes nothing
deleteNothing(docs, ids) == docs

\* MilvusVectorDatabase.delete with the filter id in [ids]
delete(docs, ids) == {d \in docs : d.id \notin ids}

\* what one processChunkBatch call can come to
Outcomes == {"ok", "embedFail", "insertFail"}

\* an insert into a collection the database does not have fails
Effective(o) == IF o = "ok" /\ ~exists THEN "insertFail" ELSE o

\* chunks sent to the enrichment model in one call
BATCH_SIZE == 10

\* which chunks generateChunkComments enriched: all the chunks of one
\* enrichment call or, when the call failed, none of them
Masks(n) ==
    IF envComments
    THEN {m \in [1..n -> BOOLEAN] :
            \A a, b \in 1..n :
                ((a - 1) \div BATCH_SIZE = (b - 1) \div BATCH_SIZE) => m[a] = m[b]}
    ELSE {[k \in 1..n |-> FALSE]}

\* a processChunkBuffer whose fallback inserts the documents before it throws
processChunkBufferLeaky(buf, mask, o1, o2) ==
    LET enhanced == [k \in 1..Len(buf) |->
                        IF mask[k] THEN Enriched(buf[k].content) ELSE buf[k].content]
        original == [k \in 1..Len(buf) |-> buf[k].content]
        first == Effective(o1)
        second == Effective(o2)
    IN IF first = "ok"
       THEN [threw |-> FALSE, docs |-> Documents(buf, enhanced),
             first |-> first, second |-> "none"]
       ELSE [threw |-> second # "ok", docs |-> Documents(buf, original),
             first |-> first, second |-> second]

\* a processChunkBuffer that gives the batch up when its first attempt fails
processChunkBufferWithoutRetry(buf, mask, o1, o2) ==
    LET enhanced == [k \in 1..Len(buf) |->
                        IF mask[k] THEN Enriched(buf[k].content) ELSE buf[k].content]
        first == Effective(o1)
    IN IF first = "ok"
       THEN [threw |-> FALSE, docs |-> Documents(buf, enhanced),
             first |-> first, second |-> "none"]
       ELSE [threw |-> TRUE, docs |-> <<>>, first |-> first, second |-> "none"]

\* processChunkBuffer: the first attempt embeds the enriched texts, a failure
\* of it is answered by one more processChunkBatch on the original texts
processChunkBuffer(buf, mask, o1, o2) ==
    LET enhanced == [k \in 1..Len(buf) |->
                        IF mask[k] THEN Enriched(buf[k].content) ELSE buf[k].content]
        original == [k \in 1..Len(buf) |-> buf[k].content]
        first == Effective(o1)
        second == Effective(o2)
    IN IF first = "ok"
       THEN [threw |-> FALSE, docs |-> Documents(buf, enhanced),
             first |-> first, second |-> "none"]
       ELSE IF second = "ok"
       THEN [threw |-> FALSE, docs |-> Documents(buf, original),
             first |-> first, second |-> second]
       ELSE [threw |-> TRUE, docs |-> <<>>, first |-> first, second |-> second]

\* the document lists one processChunkBuffer call hands to insert: that of
\* the first processChunkBatch if its embedBatch succeeded, and that of the
\* second if there was one and its embedBatch succeeded
insertRequests(buf, mask, o1, o2) ==
    LET enhanced == [k \in 1..Len(buf) |->
                        IF mask[k] THEN Enriched(buf[k].content) ELSE buf[k].content]
        original == [k \in 1..Len(buf) |-> buf[k].content]
        first == Effective(o1)
        second == Effective(o2)
    IN (IF first # "embedFail" THEN <<Documents(buf, enhanced)>> ELSE <<>>)
       \o (IF first # "ok" /\ second # "embedFail"
           THEN <<Documents(buf, original)>> ELSE <<>>)

\* const EMBEDDING_BATCH_SIZE = Math.max(1, parseInt(process.env... || '100', 10))
EMBEDDING_BATCH_SIZE ==
    MathMax(Num(1), parseInt(OrDefault(envBatch, <<"1", "0", "0">>)))

\* getCodeFiles: the files of the tree with a supported extension, as absolute paths
getCodeFiles(t) ==
    LET found == SeqOfPaths({p \in DOMAIN t :
                    t[p] # 0 /\ ExtName(p) \in DEFAULT_SUPPORTED_EXTENSIONS})
    IN [k \in 1..Len(found) |-> PathJoin(CodebasePath, found[k])]

NoDelta == [added |-> <<>>, removed |-> <<>>, modified |-> <<>>]

Result(o, s, a, b, c) == [op |-> o, status |-> s, n1 |-> a, n2 |-> b, n3 |-> c]

(***************************************************************************)
(* Ignore patterns.  A pattern, a path and a name are sequences of tokens: *)
(* ".", "/" and "*" are tokens of their own, and so is every run of other  *)
(* characters; no pattern of the model has a "*" next to such a run.       *)
(***************************************************************************)
DEFAULT_IGNORE_PATTERNS ==
    <<
      <<"node_modules", "/", "*", "*">>,
      <<"dist", "/", "*", "*">>,
      <<"build", "/", "*", "*">>,
      <<"out", "/", "*", "*">>,
      <<"target", "/", "*", "*">>,
      <<"coverage", "/", "*", "*">>,
      <<".", "nyc_output", "/", "*", "*">>,
      <<".", "vscode", "/", "*", "*">>,
      <<".", "idea", "/", "*", "*">>,
      <<"*", ".", "swp">>,
      <<"*", ".", "swo">>,
      <<".", "git", "/", "*", "*">>,
      <<".", "svn", "/", "*", "*">>,
      <<".", "hg", "/", "*", "*">>,
      <<".", "cache", "/", "*", "*">>,
      <<"__pycache__", "/", "*", "*">>,
      <<".", "pytest_cache", "/", "*", "*">>,
      <<"logs", "/", "*", "*">>,
      <<"tmp", "/", "*", "*">>,
      <<"temp", "/", "*", "*">>,
      <<"*", ".", "log">>,
      <<".", "env">>,
      <<".", "env", ".", "*">>,
      <<"*", ".", "local">>,
      <<"*", ".", "min", ".", "js">>,
      <<"*", ".", "min", ".", "css">>,
      <<"*", ".", "min", ".", "map">>,
      <<"*", ".", "bundle", ".", "js">>,
      <<"*", ".", "bundle", ".", "css">>,
      <<"*", ".", "chunk", ".", "js">>,
      <<"*", ".", "vendor", ".", "js">>,
      <<"*", ".", "polyfills", ".", "js">>,
      <<"*", ".", "runtime", ".", "js">>,
      <<"*", ".", "map">>,
      <<".", "specstory", "/", "*", "*">>,
      <<".", "star-factory", "/", "*", "*">>,
      <<".", "cursor", "/", "*", "*">>,
      <<"/", "docs", "/", "*", "*">>,
      <<"/", "test", "/", "*", "*">>,
      <<".", "*", "/", "*", "*">>
    >>

\* [...new Set(patterns)]: the first occurrence of each pattern, in order
Unique(patterns) ==
    LET first(k) == \A j \in 1..(k - 1) : patterns[j] # patterns[k]
        kept == SelectSeq([k \in 1..Len(patterns) |-> k], first)
    IN [i \in 1..Len(kept) |-> patterns[kept[i]]]

\* text.split('/')
RECURSIVE SplitSlash(_)
SplitSlash(text) ==
    IF \A k \in 1..Len(text) : text[k] # "/" THEN <<text>>
    ELSE LET k == CHOOSE j \in 1..Len(text) :
                     text[j] = "/" /\ \A i \in 1..(j - 1) : text[i] # "/"
         IN <<SubSeq(text, 1, k - 1)>> \o SplitSlash(SubSeq(text, k + 1, Len(text)))

\* parts.join('/')
RECURSIVE JoinSlash(_)
JoinSlash(parts) ==
    IF parts = <<>> THEN <<>>
    ELSE IF Len(parts) = 1 THEN parts[1]
    ELSE parts[1] \o <<"/">> \o JoinSlash(Tail(parts))

\* path.basename of a path without trailing slash
basename(filePath) == LET parts == SplitSlash(filePath) IN parts[Len(parts)]

\* path.extname of a file name: from its last "." on, unless that "." leads
\* the name
extname(name) ==
    IF \E k \in 2..Len(name) : name[k] = "."
    THEN LET k == CHOOSE j \in 2..Len(name) :
                     name[j] = "." /\ \A i \in (j + 1)..Len(name) : name[i] # "."
         IN SubSeq(name, k, Len(name))
    ELSE <<>>

\* new RegExp(`^${regexPattern}$`).test(text), every * turned into .*
RECURSIVE simpleGlobMatch(_, _)
simpleGlobMatch(text, pattern) ==
    IF pattern = <<>> THEN text = <<>>
    ELSE IF Head(pattern) = "*"
    THEN \E k \in 0..Len(text) :
            simpleGlobMatch(SubSeq(text, k + 1, Len(text)), Tail(pattern))
    ELSE /\ text # <<>>
         /\ Head(text) = Head(pattern)
         /\ simpleGlobMatch(Tail(text), Tail(pattern))

\* isPatternMatch
isPatternMatch(filePath, pattern) ==
    IF pattern[Len(pattern)] = "/"
    THEN LET dirPattern == SubSeq(pattern, 1, Len(pattern) - 1)
             pathParts == SplitSlash(filePath)
         IN \E k \in 1..Len(pathParts) : simpleGlobMatch(pathParts[k], dirPattern)
    ELSE IF "/" \in Range(pattern)
    THEN simpleGlobMatch(filePath, pattern)
    ELSE simpleGlobMatch(basename(filePath), pattern)

\* matchesIgnorePattern, for the path relative to the codebase
matchesIgnorePattern(patterns, relativePath) ==
    /\ Len(patterns) # 0
    /\ \E k \in 1..Len(patterns) : isPatternMatch(relativePath, patterns[k])

ignoredDirs ==
    {
     <<"node_modules">>,
     <<".", "git">>,
     <<".", "svn">>,
     <<".", "hg">>,
     <<"build">>,
     <<"dist">>,
     <<"out">>,
     <<"target">>,
     <<".", "vscode">>,
     <<".", "idea">>,
     <<"__pycache__">>,
     <<".", "pytest_cache">>,
     <<"coverage">>,
     <<".", "nyc_output">>,
     <<"logs">>,
     <<"tmp">>,
     <<"temp">>
    }

\* ignoredDirs.includes(dirName) || dirName.startsWith('.')
shouldIgnoreDirectory(dirName) == dirName \in ignoredDirs \/ Head(dirName) = "."

\* traverseDirectory reaches the file whose path below the codebase has the
\* given parts, and pushes it: no entry on the way matches an ignore
\* pattern, no directory on the way is an ignored directory, and the file
\* has a supported extension
Enumerates(patterns, supportedExtensions, parts) ==
    /\ \A k \in 1..Len(parts) :
          ~matchesIgnorePattern(patterns, JoinSlash(SubSeq(parts, 1, k)))
    /\ \A k \in 1..(Len(parts) - 1) : ~shouldIgnoreDirectory(parts[k])
    /\ extname(parts[Len(parts)]) \in supportedExtensions

(***************************************************************************)
(* Progress callbacks.                                                     *)
(***************************************************************************)
indexingStartPercentage == 10

indexingEndPercentage == 100

indexingRange == indexingEndPercentage - indexingStartPercentage

\* Math.round(num / den) for num >= 0 and den > 0
MathRound(num, den) == (2 * num + den) \div (2 * den)

\* indexCodebase, onFileProcessed:
\* Math.round(indexingStartPercentage + (fileIndex / totalFiles) * indexingRange)
IndexingPercentage(fileIndex, totalFiles) ==
    MathRound(indexingStartPercentage * totalFiles + fileIndex * indexingRange,
              totalFiles)

\* reindexByChange, updateProgress: processedChanges++, then the callback with
\* Math.round((processedChanges / (removed + modified + added)) * 100)
updateProgress ==
    /\ processedChanges' = processedChanges + 1
    /\ progress' = Append(progress,
          MathRound((processedChanges + 1) * 100,
                    Len(delta.removed) + Len(delta.modified) + Len(delta.added)))

\* onFileProcessed(filePath, fileIndex, totalFiles) as the caller of
\* processFileList passed it
onFileProcessed(fileIndex, totalFiles) ==
    IF op = "index"
    THEN /\ progress' = Append(progress, IndexingPercentage(fileIndex, totalFiles))
         /\ UNCHANGED processedChanges
    ELSE updateProgress

(***************************************************************************)
(* processFileList.                                                        *)
(***************************************************************************)
\* the locals of processFileList at its entry
EnterFileList(files) ==
    /\ filePaths' = files
    /\ fileIdx' = 1
    /\ chunks' = <<>>
    /\ chunkIdx' = 1
    /\ chunkBuffer' = <<>>
    /\ processedFiles' = 0
    /\ totalChunks' = 0
    /\ pc' = "file"

\* the locals once the call has returned
LeaveFileList ==
    /\ filePaths' = <<>>
    /\ fileIdx' = 1
    /\ chunks' = <<>>
    /\ chunkIdx' = 1
    /\ chunkBuffer' = <<>>
    /\ processedFiles' = 0
    /\ totalChunks' = 0

\* end of the body of `for (const chunk of chunks)`: next chunk, or the file
\* is done (processedFiles++, onFileProcessed) and the file loop goes on
Advance ==
    IF chunkIdx < Len(chunks)
    THEN /\ chunkIdx' = chunkIdx + 1
         /\ pc' = "chunk"
         /\ UNCHANGED <<fileIdx, chunks, processedFiles, progressVars>>
    ELSE /\ processedFiles' = processedFiles + 1
         /\ onFileProcessed(fileIdx, Len(filePaths))
         /\ fileIdx' = fileIdx + 1
         /\ chunks' = <<>>
         /\ chunkIdx' = 1
         /\ pc' = "file"

\* a catch that counts the file it skips
SkipFileCounted ==
    /\ fileIdx' = fileIdx + 1
    /\ failures' = TRUE
    /\ processedFiles' = processedFiles + 1
    /\ UNCHANGED <<chunks, chunkIdx, pc, progressVars>>

\* catch (error) { console.warn(`Skipping file ...`) }: on to the next file
SkipFile ==
    /\ fileIdx' = fileIdx + 1
    /\ failures' = TRUE
    /\ UNCHANGED <<chunks, chunkIdx, pc, processedFiles, progressVars>>

\* readFile and split of filePaths[i]; a failure skips the file
ReadFile ==
    /\ pc = "file"
    /\ fileIdx <= Len(filePaths)
    /\ LET filePath == filePaths[fileIdx]
           rel == PathRelative(CodebasePath, filePath)
       IN \E readOk \in BOOLEAN :
            /\ (~readOk => nfail < MaxFailures)
            /\ nfail' = IF readOk THEN nfail ELSE nfail + 1
            /\ skipped' = IF readOk THEN skipped ELSE skipped \cup {rel}
            /\ IF readOk /\ tree[rel] # 0
               THEN LET cs == Split(tree[rel], filePath)
                    IN IF Len(cs) = 0
                       THEN /\ processedFiles' = processedFiles + 1
                            /\ onFileProcessed(fileIdx, Len(filePaths))
                            /\ fileIdx' = fileIdx + 1
                            /\ UNCHANGED <<chunks, chunkIdx, pc, failures>>
                       ELSE /\ chunks' = cs
                            /\ chunkIdx' = 1
                            /\ pc' = "chunk"
                            /\ UNCHANGED <<processedFiles, fileIdx, failures,
                                           progressVars>>
               ELSE SkipFile
    /\ UNCHANGED <<envBatch, envComments, tree, exists, coll, snapshotFile,
                   synchronizers, op, filePaths, chunkBuffer, totalChunks,
                   delta, delIdx, ret, ncalls, nedits, flushLog,
                   appendLog, insertLog, inserted,
                   deleted, prevSnapshot, streak, idsFirst, indexedTree, owed>>
    /\ UNCHANGED <<searchVars, idVars, collectionVars, ignoreVars, auxVars>>

\* chunkBuffer.push(chunk); totalChunks++; then the test of the buffer length
AppendChunk ==
    /\ pc = "chunk"
    /\ chunkBuffer' = Append(chunkBuffer, chunks[chunkIdx])
    /\ appendLog' = Append(appendLog, chunks[chunkIdx])
    /\ totalChunks' = totalChunks + 1
    /\ IF GreaterEq(Num(Len(chunkBuffer) + 1), EMBEDDING_BATCH_SIZE)
       THEN /\ pc' = "flush"
            /\ UNCHANGED <<fileIdx, chunks, chunkIdx, processedFiles, progressVars>>
       ELSE Advance
    /\ UNCHANGED <<envBatch, envComments, tree, exists, coll, snapshotFile,
                   synchronizers, op, filePaths, delta, delIdx, ret, ncalls,
                   nedits, nfail, flushLog, insertLog, inserted, skipped, failures, deleted,
                   prevSnapshot, streak, idsFirst, indexedTree, owed>>
    /\ UNCHANGED <<searchVars, idVars, collectionVars, ignoreVars, auxVars>>

\* the failures a flush takes from the environment: enrichment calls that
\* failed and processChunkBatch calls that threw
FlushFailures(n, mask, o1, o2) ==
    (IF envComments
     THEN Cardinality({(k - 1) \div BATCH_SIZE : k \in {a \in 1..n : ~mask[a]}})
     ELSE 0)
    + (IF o1 # "ok" THEN 1 ELSE 0)
    + (IF o1 # "ok" /\ o2 # "ok" THEN 1 ELSE 0)

\* the flushes the environment can produce for the buffer
FlushChoices ==
    {c \in [o1 : Outcomes, o2 : Outcomes, mask : Masks(Len(chunkBuffer))] :
        /\ (c.o1 = "ok" => c.o2 = "ok")
        /\ nfail + FlushFailures(Len(chunkBuffer), c.mask, c.o1, c.o2) <= MaxFailures}

\* effect of one processChunkBuffer call, with its error caught by the caller
Flushed(c) ==
  LET r == processChunkBuffer(chunkBuffer, c.mask, c.o1, c.o2) IN
    /\ nfail' = nfail + FlushFailures(Len(chunkBuffer), c.mask, c.o1, c.o2)
    /\ coll' = insert(coll, r.docs)
    /\ flushLog' = flushLog \cup {[batch |-> Range(chunkBuffer),
                                    first |-> r.first, second |-> r.second]}
    /\ insertLog' = insertLog \o insertRequests(chunkBuffer, c.mask, c.o1, c.o2)
    /\ inserted' = inserted \cup Range(r.docs)
    /\ failures' = (failures \/ r.threw)

\* try { processChunkBuffer } catch { log } finally { chunkBuffer = [] }
Flush ==
    /\ pc = "flush"
    /\ \E c \in FlushChoices : Flushed(c)
    /\ chunkBuffer' = <<>>
    /\ Advance
    /\ UNCHANGED <<envBatch, envComments, tree, exists, snapshotFile,
                   synchronizers, op, filePaths, totalChunks, delta, delIdx,
                   appendLog,
                   ret, ncalls, nedits, skipped, deleted, prevSnapshot, streak,
                   idsFirst, indexedTree, owed>>
    /\ UNCHANGED <<searchVars, idVars, collectionVars, ignoreVars, auxVars>>

\* after the file loop: the remaining chunks, if any, are flushed
FinalFlush ==
    /\ pc = "file"
    /\ fileIdx > Len(filePaths)
    /\ IF Len(chunkBuffer) > 0
       THEN \E c \in FlushChoices : Flushed(c)
       ELSE UNCHANGED <<coll, nfail, flushLog, insertLog, inserted, failures>>
    /\ pc' = "return"
    /\ UNCHANGED <<envBatch, envComments, tree, exists, snapshotFile,
                   synchronizers, op, filePaths, fileIdx, chunks, chunkIdx,
                   appendLog,
                   chunkBuffer, processedFiles, totalChunks, delta, delIdx,
                   ret, ncalls, nedits, skipped, deleted, prevSnapshot, streak,
                   idsFirst, indexedTree, owed, progressVars>>
    /\ UNCHANGED <<searchVars, idVars, collectionVars, ignoreVars, auxVars>>

(***************************************************************************)
(* The file synchronizer (sync/synchronizer.ts).                           *)
(***************************************************************************)
\* content hash of a file
ContentHash(c) == <<"h", c>>

\* the current map: relative path -> content hash, for the files on disk
HashTree(t) == [p \in {q \in DOMAIN t : t[q] # 0} |-> ContentHash(t[p])]

\* a comparison that takes every path present on both sides for modified
compareStatesByPresence(old, new) ==
    [added |-> SelectSeq(PathOrder,
                  LAMBDA p : p \in DOMAIN new /\ p \notin DOMAIN old),
     removed |-> SelectSeq(PathOrder,
                  LAMBDA p : p \in DOMAIN old /\ p \notin DOMAIN new),
     modified |-> SelectSeq(PathOrder,
                  LAMBDA p : p \in DOMAIN new /\ p \in DOMAIN old)]

\* keys only in current -> added; only in snapshot -> removed; in both with
\* differing hash -> modified
compareStates(old, new) ==
    [added |-> SelectSeq(PathOrder,
                  LAMBDA p : p \in DOMAIN new /\ p \notin DOMAIN old),
     removed |-> SelectSeq(PathOrder,
                  LAMBDA p : p \in DOMAIN old /\ p \notin DOMAIN new),
     modified |-> SelectSeq(PathOrder,
                  LAMBDA p : p \in DOMAIN new /\ p \in DOMAIN old /\ new[p] # old[p])]

\* new FileSynchronizer(...).initialize(): the hashes of the persisted
\* snapshot, which is created from the files on disk when there is none
initialize(t, file) == IF file = <<>> THEN HashTree(t) ELSE file[1]

(***************************************************************************)
(* API calls.                                                              *)
(***************************************************************************)
CallStart ==
    /\ pc = "idle"
    /\ ncalls < MaxCalls
    /\ ncalls' = ncalls + 1
    /\ flushLog' = {}
    /\ appendLog' = <<>>
    /\ insertLog' = <<>>
    /\ inserted' = {}
    /\ skipped' = {}
    /\ deleted' = {}

\* bookkeeping of the runs of indexCodebase that follow one another
StreakAtStart == IF ~exists THEN 1 ELSE IF streak = 2 THEN 3 ELSE 0

StreakAtEnd(st, failed) ==
    IF failed THEN 0 ELSE IF st = 1 THEN 2 ELSE IF st = 3 THEN 4 ELSE 0

\* bookkeeping of a reindexByChange that failed partway and of its retry
OwedAfter(failed) ==
    IF owed # <<>> /\ ~owed[1].again
    THEN <<[owed[1] EXCEPT !.again = TRUE, !.againFailed = failed]>>
    ELSE IF failed
    THEN <<[added |-> Range(delta.added), removed |-> Range(delta.removed),
            modified |-> Range(delta.modified), again |-> FALSE,
            againFailed |-> FALSE]>>
    ELSE <<>>

\* prepareCollection: createCollection with the dimension of the embedding
\* provider; the schema has the sparse field when the adapter's enableBM25
\* is set; for a collection the database has, the request changes nothing
createCollection ==
    IF exists
    THEN UNCHANGED <<dimension, config>>
    ELSE /\ dimension' = embedding
         /\ config' = [config EXCEPT !.sparseField = config.enableBM25]

\* indexCodebase up to the call of processFileList: prepareCollection
\* (createCollection of a collection the database has is a no-op),
\* getCodeFiles, and the early return when there is no file
IndexCodebase ==
    /\ CallStart
    /\ exists' = TRUE
    /\ failures' = FALSE
    /\ LET codeFiles == getCodeFiles(tree)
       IN IF Len(codeFiles) = 0
          THEN /\ progress' = <<0, 5, 100>>
               /\ ret' = Result("index", "ok", 0, 0, 0)
               /\ streak' = StreakAtEnd(StreakAtStart, FALSE)
               /\ idsFirst' = IF StreakAtStart = 1 THEN Ids(coll) ELSE idsFirst
               /\ indexedTree' = <<tree>>
               /\ UNCHANGED <<op, pc, filePaths, fileIdx, chunks, chunkIdx,
                              chunkBuffer, processedFiles, totalChunks>>
          ELSE /\ progress' = <<0, 5>>
               /\ EnterFileList(codeFiles)
               /\ op' = "index"
               /\ streak' = StreakAtStart
               /\ indexedTree' = <<>>
               /\ UNCHANGED <<ret, idsFirst>>
    /\ owed' = <<>>
    /\ UNCHANGED <<envBatch, envComments, tree, coll, snapshotFile,
                   synchronizers, delta, delIdx, nedits, nfail, prevSnapshot,
                   processedChanges>>
    /\ createCollection
    /\ UNCHANGED <<embedding, similarity, searchCall, searchResults, idVars,
                   ignoreVars, auxVars>>

\* return { indexedFiles: result.processedFiles, totalChunks: result.totalChunks }
IndexCodebaseReturn ==
    /\ pc = "return"
    /\ op = "index"
    /\ ret' = Result("index", "ok", processedFiles, totalChunks, 0)
    /\ pc' = "idle"
    /\ op' = "none"
    /\ LeaveFileList
    /\ streak' = StreakAtEnd(streak, failures)
    /\ idsFirst' = IF streak = 1 /\ ~failures THEN Ids(coll) ELSE idsFirst
    /\ indexedTree' = IF failures THEN <<>> ELSE <<tree>>
    /\ progress' = Append(progress, 100)
    /\ UNCHANGED <<envBatch, envComments, tree, exists, coll, snapshotFile,
                   synchronizers, delta, delIdx, ncalls, nedits, nfail, flushLog,
                   appendLog, insertLog,
                   inserted, skipped, failures, deleted, prevSnapshot, owed,
                   processedChanges>>
    /\ UNCHANGED <<searchVars, idVars, collectionVars, ignoreVars, auxVars>>

\* a return that reports every file on disk as added
NoChangesDetectedCountingFiles ==
    /\ progress' = <<0, 100>>
    /\ ret' = Result("reindex", "ok", Len(getCodeFiles(tree)), 0, 0)
    /\ owed' = OwedAfter(FALSE)
    /\ UNCHANGED <<op, pc, delIdx, filePaths, fileIdx, chunks,
                   chunkIdx, chunkBuffer, processedFiles, totalChunks>>

\* reindexByChange when totalChanges === 0: the callback gets its last
\* report and the call returns { added: 0, removed: 0, modified: 0 }
NoChangesDetected ==
    /\ progress' = <<0, 100>>
    /\ ret' = Result("reindex", "ok", 0, 0, 0)
    /\ owed' = OwedAfter(FALSE)
    /\ UNCHANGED <<op, pc, delIdx, filePaths, fileIdx, chunks,
                   chunkIdx, chunkBuffer, processedFiles, totalChunks>>

\* reindexByChange up to the first deletion: the synchronizer of the
\* codebase is created on first use, checkForChanges gives the delta and
\* rewrites the snapshot; no change returns at once
ReindexByChange ==
    /\ CallStart
    /\ LET created == (synchronizers = <<>>)
           old == IF created THEN initialize(tree, snapshotFile)
                  ELSE synchronizers[1]
           new == HashTree(tree)
           d == compareStates(old, new)
           totalChanges == Len(d.added) + Len(d.removed) + Len(d.modified)
           filesToIndex == [k \in 1..(Len(d.added) + Len(d.modified)) |->
                              PathJoin(CodebasePath, (d.added \o d.modified)[k])]
       IN /\ synchronizers' = <<new>>
          /\ snapshotFile' = <<new>>
          /\ prevSnapshot' = IF created THEN <<old>> ELSE snapshotFile
          /\ delta' = d
          /\ IF totalChanges = 0
             THEN NoChangesDetected
             ELSE /\ progress' = <<0>>
                  /\ op' = "reindex"
                  /\ delIdx' = 1
                  /\ IF Len(d.removed) + Len(d.modified) > 0
                     THEN /\ pc' = "delete"
                          /\ UNCHANGED <<filePaths, fileIdx, chunks, chunkIdx,
                                         chunkBuffer, processedFiles, totalChunks>>
                     ELSE EnterFileList(filesToIndex)
                  /\ UNCHANGED <<ret, owed>>
    /\ processedChanges' = 0
    /\ failures' = FALSE
    /\ streak' = 0
    /\ indexedTree' = IF ret.op = "index" THEN indexedTree ELSE <<>>
    /\ UNCHANGED <<envBatch, envComments, tree, exists, coll, nedits, nfail,
                   idsFirst>>
    /\ UNCHANGED <<searchVars, idVars, collectionVars, ignoreVars, auxVars>>

\* deleteFileChunks of the next removed or modified file: query the ids of
\* the documents with this relativePath, then delete them by id; an error
\* of the query or of the delete ends reindexByChange with that error
DeleteFileChunks ==
    /\ pc = "delete"
    /\ LET targets == delta.removed \o delta.modified
           file == targets[delIdx]
           results == query(coll, file)
           ids == {d.id : d \in {r \in results : r.id # <<>>}}
           filesToIndex == [k \in 1..(Len(delta.added) + Len(delta.modified)) |->
                              PathJoin(CodebasePath, (delta.added \o delta.modified)[k])]
       IN \E o \in {"ok", "queryFail"} \cup (IF ids # {} THEN {"deleteFail"} ELSE {}) :
            LET outcome == IF ~exists THEN "queryFail" ELSE o
            IN /\ (o # "ok" => nfail < MaxFailures)
               /\ nfail' = IF o = "ok" THEN nfail ELSE nfail + 1
               /\ IF outcome = "ok"
                  THEN /\ coll' = delete(coll, ids)
                       /\ deleted' = deleted \cup ids
                       /\ updateProgress
                       /\ delIdx' = delIdx + 1
                       /\ IF delIdx < Len(targets)
                          THEN UNCHANGED <<pc, filePaths, fileIdx, chunks, chunkIdx,
                                           chunkBuffer, processedFiles, totalChunks>>
                          ELSE IF Len(filesToIndex) > 0
                          THEN EnterFileList(filesToIndex)
                          ELSE /\ pc' = "return"
                               /\ UNCHANGED <<filePaths, fileIdx, chunks, chunkIdx,
                                              chunkBuffer, processedFiles, totalChunks>>
                       /\ UNCHANGED <<op, ret, failures, owed>>
                  ELSE /\ ret' = Result("reindex", "threw", 0, 0, 0)
                       /\ pc' = "idle"
                       /\ op' = "none"
                       /\ failures' = TRUE
                       /\ owed' = OwedAfter(TRUE)
                       /\ UNCHANGED <<coll, deleted, delIdx, filePaths, fileIdx,
                                      chunks, chunkIdx, chunkBuffer, processedFiles,
                                      totalChunks, progressVars>>
    /\ UNCHANGED <<envBatch, envComments, tree, exists, snapshotFile,
                   synchronizers, delta, ncalls, nedits, flushLog,
                   appendLog, insertLog, inserted, skipped,
                   prevSnapshot, streak, idsFirst, indexedTree>>
    /\ UNCHANGED <<searchVars, idVars, collectionVars, ignoreVars, auxVars>>

\* return { added: added.length, removed: removed.length, modified: modified.length }
ReindexByChangeReturn ==
    /\ pc = "return"
    /\ op = "reindex"
    /\ ret' = Result("reindex", "ok", Len(delta.added), Len(delta.removed),
                     Len(delta.modified))
    /\ pc' = "idle"
    /\ op' = "none"
    /\ LeaveFileList
    /\ owed' = OwedAfter(failures)
    /\ progress' = Append(progress, 100)
    /\ UNCHANGED <<envBatch, envComments, tree, exists, coll, snapshotFile,
                   synchronizers, delta, delIdx, ncalls, nedits, nfail, flushLog,
                   appendLog, insertLog,
                   inserted, skipped, failures, deleted, prevSnapshot, streak,
                   idsFirst, indexedTree, processedChanges>>
    /\ UNCHANGED <<searchVars, idVars, collectionVars, ignoreVars, auxVars>>

\* a drop that leaves the collection in the database
dropCollectionKept(has) == has

\* MilvusVectorDatabase.dropCollection: whether the database has the
\* collection afterwards
dropCollection(has) == FALSE

\* FileSynchronizer.deleteSnapshot: the snapshot file afterwards
deleteSnapshot(file) == <<>>

\* clearIndex: drop the collection if the database has it, delete the
\* snapshot file; this.synchronizers is left as it is.  The outcome on
\* record says whether there was a collection and whether there was a
\* snapshot
ClearIndex ==
    /\ CallStart
    /\ LET collectionExists == exists
       IN /\ exists' = IF collectionExists THEN dropCollection(exists) ELSE exists
          /\ coll' = IF exists' THEN coll ELSE {}
          /\ ret' = Result("clear", "ok", IF collectionExists THEN 1 ELSE 0,
                           IF snapshotFile # <<>> THEN 1 ELSE 0, 0)
    /\ snapshotFile' = deleteSnapshot(snapshotFile)
    /\ progress' = <<0, 50, 100>>
    /\ failures' = FALSE
    /\ streak' = 0
    /\ indexedTree' = <<>>
    /\ owed' = <<>>
    /\ UNCHANGED <<envBatch, envComments, tree, synchronizers, op, pc,
                   filePaths, fileIdx, chunks, chunkIdx, chunkBuffer,
                   processedFiles, totalChunks, delta, delIdx, nedits, nfail,
                   prevSnapshot, idsFirst, processedChanges>>
    /\ dimension' = IF exists' THEN dimension ELSE 0
    /\ config' = IF exists' THEN config ELSE [config EXCEPT !.sparseField = FALSE]
    /\ UNCHANGED <<embedding, similarity, searchCall, searchResults, idVars,
                   ignoreVars, auxVars>>

\* between two calls a file is written, created or removed
EditTree ==
    /\ pc = "idle"
    /\ nedits < MaxEdits
    /\ \E p \in DOMAIN tree, c \in 0..MaxContent :
            /\ c # tree[p]
            /\ tree' = [tree EXCEPT ![p] = c]
    /\ nedits' = nedits + 1
    /\ streak' = 0
    /\ owed' = <<>>
    /\ indexedTree' = IF ret.op = "index" THEN indexedTree ELSE <<>>
    /\ UNCHANGED <<envBatch, envComments, exists, coll, snapshotFile,
                   synchronizers, op, pc, filePaths, fileIdx, chunks, chunkIdx,
                   chunkBuffer, processedFiles, totalChunks, delta, delIdx,
                   ret, ncalls, nfail, flushLog,
                   appendLog, insertLog, inserted, skipped, failures,
                   deleted, prevSnapshot, idsFirst, progressVars>>
    /\ UNCHANGED <<searchVars, idVars, collectionVars, ignoreVars, auxVars>>

RECURSIVE Flatten(_)
Flatten(ss) == IF ss = <<>> THEN <<>> ELSE Head(ss) \o Flatten(Tail(ss))

\* the documents a run of indexCodebase without failure and without
\* enrichment leaves for tree t: the chunks in file order, each at the
\* position it takes in its batch
FullIndexDocs(t) ==
    LET files == getCodeFiles(t)
        all == Flatten([k \in 1..Len(files) |->
                   Split(t[PathRelative(CodebasePath, files[k])], files[k])])
        size == EMBEDDING_BATCH_SIZE
        slot(k) == IF size.nan THEN k ELSE ((k - 1) % size.val) + 1
    IN {MakeDocument(all[k], slot(k), Embed(all[k].content)) : k \in 1..Len(all)}

\* the fields and locals of an indexer that has served no call
Constructed ==
    /\ synchronizers = <<>>
    /\ op = "none"
    /\ pc = "idle"
    /\ filePaths = <<>>
    /\ fileIdx = 1
    /\ chunks = <<>>
    /\ chunkIdx = 1
    /\ chunkBuffer = <<>>
    /\ processedFiles = 0
    /\ totalChunks = 0
    /\ delta = NoDelta
    /\ delIdx = 1
    /\ ret = Result("none", "none", 0, 0, 0)
    /\ nfail = 0
    /\ flushLog = {}
    /\ appendLog = <<>>
    /\ insertLog = <<>>
    /\ inserted = {}
    /\ skipped = {}
    /\ failures = FALSE
    /\ deleted = {}
    /\ prevSnapshot = <<>>
    /\ streak = 0
    /\ idsFirst = {}
    /\ indexedTree = <<>>
    /\ owed = <<>>
    /\ processedChanges = 0
    /\ progress = <<>>
    /\ ignorePatterns = DEFAULT_IGNORE_PATTERNS
    /\ userPatterns = <<>>
    /\ disk = {}
    /\ foundFiles = <<>>

\* The indexer has just been constructed.  The database and the snapshot
\* directory are as an earlier process left them: nothing, or the
\* collection and the snapshot of the tree that process indexed, with the
\* files edited since counted as edits.
InitPipeline ==
    /\ ncalls = 0
    /\ embedding = MaxDimension
    /\ envBatch \in EnvBatchValues
    /\ envComments \in BOOLEAN
    /\ tree \in Trees
    /\ \/ /\ exists = FALSE
          /\ dimension = 0
          /\ coll = {}
          /\ snapshotFile = <<>>
          /\ nedits = 0
       \/ \E t0 \in Trees :
            /\ exists = TRUE
            /\ dimension = embedding
            /\ coll = FullIndexDocs(t0)
            /\ snapshotFile = <<HashTree(t0)>>
            /\ nedits = Cardinality({p \in Paths : t0[p] # tree[p]})
    /\ Constructed

\* no search call has been made
NoSearch ==
    /\ config = [enableSparseVectors |-> FALSE, enableBM25 |-> FALSE,
                 sparseField |-> FALSE]
    /\ similarity = <<>>
    /\ searchCall = [api |-> "none"]
    /\ searchResults = <<"none", <<>>, <<>>>>

\* processChunkBatch is not under study
NoIdProbe ==
    /\ idChunks = <<>>
    /\ idDocs = <<>>

\* EnhancedAstSplitter.split has not been called
NoSplit ==
    /\ fullCode = <<>>
    /\ originalChunks = <<>>
    /\ enhancedChunks = <<>>

\* generateChunkComments has not been called
NoComments ==
    /\ commentInput = <<>>
    /\ resultChunks = <<>>
    /\ groupStart = 0
    /\ pendingBatches = {}
    /\ commentsPc = "idle"
    /\ completionOrder = <<>>
    /\ commentDocs = <<>>

\* processChunkBatch is not followed on its own
NoBatch ==
    /\ batchChunks = <<>>
    /\ batchTexts = <<>>
    /\ batchEmbeddings = <<>>
    /\ batchRequests = <<>>
    /\ batchStored = {}
    /\ batchPc = "returned"

\* no RateLimitedVoyageEmbedding has been constructed
NoRateLimit ==
    /\ embeddingQueue = <<>>
    /\ processingQueue = FALSE
    /\ tokenCount = 0
    /\ requestCount = 0
    /\ delayElapsed = TRUE
    /\ delayTimer = FALSE
    /\ retryTimer = FALSE
    /\ nextTimers = 0
    /\ inFlight = {}
    /\ nextRequest = 1
    /\ n429 = 0
    /\ sentLog = <<>>
    /\ resolved = {}
    /\ rejected = {}

NoAux == NoSplit /\ NoComments /\ NoBatch /\ NoRateLimit

Init == InitPipeline /\ NoSearch /\ NoIdProbe /\ NoAux

Next ==
    \/ IndexCodebase
    \/ ReadFile
    \/ AppendChunk
    \/ Flush
    \/ FinalFlush
    \/ IndexCodebaseReturn
    \/ ReindexByChange
    \/ DeleteFileChunks
    \/ ReindexByChangeReturn
    \/ ClearIndex
    \/ EditTree

Spec == Init /\ [][Next]_vars

(***************************************************************************)
(* Properties of the indexing pipeline.                                    *)
(***************************************************************************)
\* a < b on JavaScript numbers: false whenever an operand is NaN
LessThan(a, b) == ~a.nan /\ ~b.nan /\ a.val < b.val

\* document d was built from chunk c
DocOf(c, d) ==
    /\ d.relativePath = PathRelative(CodebasePath, c.filePath)
    /\ d.startLine = c.startLine
    /\ d.endLine = c.endLine
    /\ d.content = c.content

\* chunks that went through a flush of this call
FlushedChunks == UNION {f.batch : f \in flushLog}

\* chunks of the flushes of this call that ended in an insert
PersistedChunks ==
    UNION {f.batch : f \in {g \in flushLog : g.first = "ok" \/ g.second = "ok"}}

\* C1: in processFileList, once a chunk has been appended and the step is
\* over, the buffer holds fewer chunks than the embedding batch size
BufferBelowBatchSize ==
    (pc \in {"file", "chunk"} /\ totalChunks > 0)
        => LessThan(Num(Len(chunkBuffer)), EMBEDDING_BATCH_SIZE)

\* C2 as stated: no chunk of a batch with a failed embedding call is
\* inserted, and indexCodebase goes through all the files and returns normally
EmbedFailureSkipsBatch ==
    /\ \A f \in flushLog :
          (f.first = "embedFail" \/ f.second = "embedFail")
              => \A c \in f.batch : ~\E d \in inserted : DocOf(c, d)
    /\ (op = "index" /\ pc = "return")
          => \A p \in Paths :
                (tree[p] # 0 /\ p \notin skipped)
                    => FileChunks(tree, p) \subseteq FlushedChunks
    /\ (pc = "idle" /\ ret.op = "index") => ret.status = "ok"

\* C2 amended: no chunk of a batch whose embedding call failed in the first
\* attempt and in the one retry on the original texts is inserted, and
\* indexCodebase goes through all the files it can read and returns normally
EmbedFailureTwiceSkipsBatch ==
    /\ \A f \in flushLog :
          (f.first = "embedFail" /\ f.second = "embedFail")
              => \A c \in f.batch : ~\E d \in inserted : DocOf(c, d)
    /\ (op = "index" /\ pc = "return")
          => \A p \in Paths :
                (tree[p] # 0 /\ p \notin skipped)
                    => FileChunks(tree, p) \subseteq FlushedChunks
    /\ (pc = "idle" /\ ret.op = "index") => ret.status = "ok"

\* a run of indexCodebase has returned after giving up one batch on two
\* embedding failures and inserting another
EmbedFailureTwiceSeen ==
    /\ pc = "idle"
    /\ ret.op = "index"
    /\ \E f \in flushLog : f.first = "embedFail" /\ f.second = "embedFail"
    /\ \E g \in flushLog : g.first = "ok" /\ g.batch # {}
    /\ inserted # {}

\* C3: the counts indexCodebase returns count no chunk of a batch that was
\* not inserted and no file without an inserted chunk
CountsSuccessesOnly ==
    (pc = "idle" /\ ret.op = "index")
        => /\ ret.n2 <= Cardinality(PersistedChunks)
           /\ ret.n1 <= Cardinality({d.relativePath : d \in inserted})

\* C4: a second failure-free indexCodebase on the unchanged tree, after a
\* first one that started without the collection, returns normally and
\* leaves the ids the first one left
ReindexingKeepsIds ==
    streak = 4 => (ret.op = "index" /\ ret.status = "ok" /\ Ids(coll) = idsFirst)

\* the second run has returned and the collection is not empty
IndexedTwice == streak = 4 /\ idsFirst # {} /\ pc = "idle"

(***************************************************************************)
(* Properties of incremental reindexing.                                   *)
(***************************************************************************)
\* the tree is as the last checkForChanges saw it
TreeAsCompared == synchronizers # <<>> /\ synchronizers[1] = HashTree(tree)

\* no document of path p holds anything but the chunks the file has now
NoOldDocument(p) ==
    \A d \in coll :
        d.relativePath = p => \E c \in FileChunks(tree, p) : DocOf(c, d)

\* every chunk the file at p has now is in the collection
ChunksPresent(p) == \A c \in FileChunks(tree, p) : \E d \in coll : DocOf(c, d)

\* C6: against a persisted snapshot, added is the paths of the tree the
\* snapshot lacks, removed the paths of the snapshot the tree lacks,
\* modified the paths of both whose hash differs; no path is listed twice
\* and the three are pairwise disjoint
DeltaMatchesSnapshot ==
    (prevSnapshot # <<>> /\ TreeAsCompared)
        => LET S0 == prevSnapshot[1]
               T == HashTree(tree)
               added == Range(delta.added)
               removed == Range(delta.removed)
               modified == Range(delta.modified)
           IN /\ added = {p \in Paths : p \in DOMAIN T /\ p \notin DOMAIN S0}
              /\ removed = {p \in Paths : p \in DOMAIN S0 /\ p \notin DOMAIN T}
              /\ modified = {p \in Paths : /\ p \in DOMAIN S0
                                           /\ p \in DOMAIN T
                                           /\ T[p] # S0[p]}
              /\ added \cap removed = {}
              /\ added \cap modified = {}
              /\ removed \cap modified = {}
              /\ Len(delta.added) = Cardinality(added)
              /\ Len(delta.removed) = Cardinality(removed)
              /\ Len(delta.modified) = Cardinality(modified)
              /\ \A p \in Paths :
                    (p \in DOMAIN S0 /\ p \in DOMAIN T /\ T[p] = S0[p])
                        => p \notin added \cup removed \cup modified

\* a delta against a persisted snapshot that lists an added, a removed or a
\* modified file while another file is unchanged
DeltaSeen ==
    /\ prevSnapshot # <<>>
    /\ TreeAsCompared
    /\ Len(delta.added) + Len(delta.removed) + Len(delta.modified) > 0
    /\ \E p \in DOMAIN prevSnapshot[1] :
          tree[p] # 0 /\ ContentHash(tree[p]) = prevSnapshot[1][p]

\* C7: once reindexByChange has returned normally, no document has the
\* relativePath of a file of the delta's removed list, and the removed
\* count returned is the number of these files
RemovedFilesLeaveNoDocument ==
    (pc = "idle" /\ ret.op = "reindex" /\ ret.status = "ok")
        => /\ \A p \in Range(delta.removed) :
                 ~\E d \in coll : d.relativePath = p
           /\ ret.n2 = Cardinality(Range(delta.removed))

\* reindexByChange has returned after deleting the documents of a removed file
RemovedFileSeen ==
    /\ pc = "idle"
    /\ ret.op = "reindex"
    /\ ret.status = "ok"
    /\ delta.removed # <<>>
    /\ deleted # {}

\* C8: the reindexByChange that follows a failure-free indexCodebase reports
\* every file edited in between as modified and, when it meets no failure,
\* leaves none of the file's old documents, all of its new ones, and the
\* new hash in the snapshot
EditIsReindexed ==
    (pc = "idle" /\ ret.op = "reindex" /\ indexedTree # <<>>)
        => \A p \in Paths :
              (indexedTree[1][p] # 0 /\ tree[p] # 0 /\ tree[p] # indexedTree[1][p])
                  => /\ p \in Range(delta.modified)
                     /\ (ret.status = "ok" /\ ~failures)
                            => NoOldDocument(p) /\ ChunksPresent(p)
                     /\ snapshotFile # <<>>
                     /\ p \in DOMAIN snapshotFile[1]
                     /\ snapshotFile[1][p] = ContentHash(tree[p])

\* C9: a reindexByChange that failed partway and is called again on the
\* unchanged tree, this time without failure, leaves no old document of a
\* removed or modified file and every chunk of an added or modified file
RetryCompletes ==
    (pc = "idle" /\ ret.op = "reindex" /\ owed # <<>>
        /\ owed[1].again /\ ~owed[1].againFailed)
        => /\ \A p \in owed[1].removed \cup owed[1].modified : NoOldDocument(p)
           /\ \A p \in owed[1].added \cup owed[1].modified : ChunksPresent(p)

\* C20: when clearIndex has returned, it has done so without error, the
\* database has no collection for the codebase and the snapshot is deleted,
\* whether or not there was a collection or a snapshot before
ClearIndexLeavesNothing ==
    (pc = "idle" /\ ret.op = "clear")
        => /\ ret.status = "ok"
           /\ ~exists
           /\ coll = {}
           /\ snapshotFile = <<>>

\* a clearIndex that found nothing to clear, after a call that had left
\* nothing
ClearedAgain ==
    /\ pc = "idle"
    /\ ncalls = MaxCalls
    /\ ret = Result("clear", "ok", 0, 0, 0)
    /\ ~exists
    /\ snapshotFile = <<>>

\* the chunks the splitter emits for the files on disk
ChunksOnDisk == UNION {FileChunks(tree, p) : p \in Paths}

\* the document inserted for chunk c at batch position index when
\* enrichment is disabled
PlainDocument(c, index) ==
    [id |-> generateId(PathRelative(CodebasePath, c.filePath), c.startLine,
                       c.endLine, c.content),
     vector |-> Embed(c.content),
     content |-> c.content,
     relativePath |-> PathRelative(CodebasePath, c.filePath),
     startLine |-> c.startLine,
     endLine |-> c.endLine,
     fileExtension |-> ExtName(c.filePath),
     chunkIndex |-> index - 1]

\* C21: a document inserted with enrichment enabled differs from the document
\* inserted for the same chunk with enrichment disabled in its vector only
EnrichmentChangesVectorOnly ==
    (op # "none" /\ envComments) =>
        \A d \in inserted :
            \E c \in ChunksOnDisk :
                [d EXCEPT !.vector = Embed(c.content)]
                    = PlainDocument(c, d.chunkIndex + 1)

\* a document whose vector was computed from the enriched text
EnrichedDocumentInserted ==
    /\ op # "none"
    /\ envComments
    /\ \E d \in inserted : d.vector.of = Enriched(d.content)

\* C27: while reindexByChange still deletes, it has issued no insert; once
\* it indexes, no document of a removed or modified path is left but those it
\* has inserted itself, and the files it indexes are the added and the
\* modified ones
DeletesPrecedeInserts ==
    op = "reindex" =>
        /\ pc = "delete" => (inserted = {} /\ flushLog = {})
        /\ pc # "delete" =>
              /\ \A d \in coll \ inserted :
                    d.relativePath \notin Range(delta.removed) \cup Range(delta.modified)
              /\ Range(filePaths) =
                    {PathJoin(CodebasePath, p) :
                        p \in Range(delta.added) \cup Range(delta.modified)}

\* reindexByChange has deleted the chunks of a modified file and inserted
\* new ones
ModifiedFileReinserted ==
    /\ op = "reindex"
    /\ delta.modified # <<>>
    /\ deleted # {}
    /\ inserted # {}

\* position of a file in the list processFileList works through
FileIndex(filePath) ==
    CHOOSE k \in 1..Len(filePaths) : filePaths[k] = filePath

\* the splitter emits the first before the second: an earlier file, or the
\* same file and an earlier chunk
EmittedBefore(path1, line1, path2, line2) ==
    \/ FileIndex(path1) < FileIndex(path2)
    \/ path1 = path2 /\ line1 < line2

DocumentBefore(d1, d2) ==
    EmittedBefore(PathJoin(CodebasePath, d1.relativePath), d1.startLine,
                  PathJoin(CodebasePath, d2.relativePath), d2.startLine)

\* C28: the chunks are pushed on the buffer in the order the splitter emits
\* them, file after file; every document list handed to insert is in that
\* order, and a later list either repeats the one before it (the second
\* attempt of the same flush) or holds later chunks only
SplitterOrderKept ==
    pc \in {"file", "chunk", "flush", "return"} =>
        /\ \A j, k \in 1..Len(appendLog) :
              j < k => EmittedBefore(appendLog[j].filePath, appendLog[j].startLine,
                                     appendLog[k].filePath, appendLog[k].startLine)
        /\ \A r \in 1..Len(insertLog) :
              \A j, k \in 1..Len(insertLog[r]) :
                  j < k => DocumentBefore(insertLog[r][j], insertLog[r][k])
        /\ \A r \in 1..(Len(insertLog) - 1) :
              \/ [k \in 1..Len(insertLog[r]) |-> insertLog[r][k].id]
                    = [k \in 1..Len(insertLog[r + 1]) |-> insertLog[r + 1][k].id]
              \/ \A j \in 1..Len(insertLog[r]), k \in 1..Len(insertLog[r + 1]) :
                    DocumentBefore(insertLog[r][j], insertLog[r + 1][k])

\* two flushes of one run handed chunks of two files to insert, the first of
\* them with more than one chunk
TwoFlushesInOrder ==
    /\ pc = "return"
    /\ Len(insertLog) >= 2
    /\ Len(insertLog[1]) >= 2
    /\ insertLog[1][1].relativePath # insertLog[Len(insertLog)][1].relativePath

\* the files of the list that processFileList is through with and could read
FilesRead ==
    {k \in 1..Len(filePaths) :
        /\ k < fileIdx
        /\ PathRelative(CodebasePath, filePaths[k]) \notin skipped}

\* C29: a file that could not be read or split has no chunk among those
\* pushed on the buffer and is not counted in processedFiles; every chunk
\* pushed is still in the buffer or went into a flush; and when the loop is
\* over, every chunk of every file that could be read has been pushed
FailedFileIsSkipped ==
    pc \in {"file", "chunk", "flush", "return"} =>
        /\ \A k \in 1..Len(appendLog) :
              PathRelative(CodebasePath, appendLog[k].filePath) \notin skipped
        /\ processedFiles = Cardinality(FilesRead)
        /\ Range(appendLog) = Range(chunkBuffer) \cup UNION {f.batch : f \in flushLog}
        /\ pc = "return" =>
              /\ fileIdx = Len(filePaths) + 1
              /\ \A k \in FilesRead :
                    Range(Split(tree[PathRelative(CodebasePath, filePaths[k])],
                                filePaths[k])) \subseteq Range(appendLog)

\* the second file could not be read; the chunks of the first were still in
\* the buffer and went into the last flush
SecondFileSkipped ==
    /\ pc = "return"
    /\ skipped = {FileB}
    /\ Len(filePaths) = 2
    /\ processedFiles = 1
    /\ chunkBuffer # <<>>
    /\ inserted # {}

\* C30: the embedding batch size is 100 when EMBEDDING_BATCH_SIZE is not
\* set and an integer of at least 1 whatever it is set to, and a call that
\* has appended a chunk and gone on holds fewer chunks than that in its buffer
BatchSizeAtLeastOne ==
    /\ ~EMBEDDING_BATCH_SIZE.nan
    /\ EMBEDDING_BATCH_SIZE.val >= 1
    /\ envBatch = <<>> => EMBEDDING_BATCH_SIZE = Num(100)
    /\ pc = "chunk" => Len(chunkBuffer) < EMBEDDING_BATCH_SIZE.val

(***************************************************************************)
(* Document ids: processChunkBatch applied to two chunks.                  *)
(***************************************************************************)
MaxLine == 4           \* line numbers of the chunks compared

\* relative paths of the chunks compared; a file name may hold a colon
IdPaths ==
    {<<"a.java">>, <<"b.java">>, <<"a.java", ":", "1", ":", "2", ":", "x.java">>}

\* contents of the chunks compared
IdContents == {<<"x.java">>, <<"y">>, <<"x.java", ":", "3", ":", "4", ":", "y">>}

IdChunks ==
    {[content |-> c, filePath |-> PathJoin(CodebasePath, p),
      startLine |-> a, endLine |-> b] :
        c \in IdContents, p \in IdPaths, a \in 1..MaxLine, b \in 1..MaxLine}

\* the first chunk leads its batch and is embedded as it is; the second is at
\* either position, enriched or not
InitId ==
    /\ NoAux
    /\ ncalls = 0
    /\ embedding = MaxDimension
    /\ dimension = 0
    /\ envBatch = <<>>
    /\ envComments = FALSE
    /\ tree = [p \in Paths |-> 0]
    /\ exists = FALSE
    /\ coll = {}
    /\ snapshotFile = <<>>
    /\ nedits = 0
    /\ Constructed
    /\ NoSearch
    /\ idChunks \in
          {<<[chunk |-> c1, index |-> 1, enriched |-> FALSE],
             [chunk |-> c2, index |-> i, enriched |-> e]>> :
                c1 \in IdChunks, c2 \in IdChunks, i \in 1..2, e \in BOOLEAN}
    /\ idDocs = <<>>

\* processChunkBatch: the texts embedded are the enriched ones, the
\* documents are built from the chunks
GenerateIds ==
    /\ idChunks # <<>>
    /\ idDocs = <<>>
    /\ idDocs' = [k \in 1..2 |->
                    LET c == idChunks[k].chunk
                        text == IF idChunks[k].enriched THEN Enriched(c.content)
                                ELSE c.content
                    IN MakeDocument(c, idChunks[k].index, Embed(text))]
    /\ UNCHANGED <<auxVars, pipelineVars, searchVars, idChunks>>

NextId == GenerateIds

SpecId == InitId /\ [][NextId]_vars

\* the two chunks agree on relative path, start line, end line and content
SameFields(a, b) ==
    /\ PathRelative(CodebasePath, a.filePath) = PathRelative(CodebasePath, b.filePath)
    /\ a.startLine = b.startLine
    /\ a.endLine = b.endLine
    /\ a.content = b.content

\* C5: two chunks get the same id exactly when they agree on relative path,
\* start line, end line and content, whatever their batch positions and
\* whether their texts were enriched
IdDeterminedByFields ==
    idDocs # <<>>
        => (SameFields(idChunks[1].chunk, idChunks[2].chunk)
                <=> idDocs[1].id = idDocs[2].id)

(***************************************************************************)
(* Search: CodeIndexer.semanticSearch over MilvusVectorDatabase.search and *)
(* hybridSearch.  Scores and thresholds are in thousandths.                *)
(***************************************************************************)
MaxTopK == 2           \* topK values asked for: 0..MaxTopK

ScoreValues == {300, 600}

ThresholdValues == {0, 500}

\* query texts: none, one whose keyword some contents hold, one no content holds
QueryTexts == {<<>>, <<"2">>, <<"z">>}

Min(a, b) == IF a <= b THEN a ELSE b

RECURSIVE Rankings(_)
\* the orders in which the database can list the documents of D: best score
\* first, documents of equal score in any order
Rankings(D) ==
    IF D = {} THEN {<<>>}
    ELSE LET top == {d \in D : \A e \in D : similarity[d] >= similarity[e]}
         IN UNION {{<<d>> \o r : r \in Rankings(D \ {d})} : d \in top}

\* client.search: the `limit` best rows among the documents of D, as the
\* database ranks them
clientSearch(rank, D, limit) ==
    LET r == SelectSeq(rank, LAMBDA d : d \in D)
    IN [k \in 1..Min(limit, Len(r)) |-> [doc |-> r[k], score |-> similarity[r[k]]]]

\* a mapping of the rows that leaves the scores as the database gave them
ToResultsUnscaled(rows, tenths) ==
    [k \in 1..Len(rows) |-> [document |-> rows[k].doc, score |-> rows[k].score]]

\* results.map(result => ({ document, score: result.score * tenths / 10 }))
ToResults(rows, tenths) ==
    [k \in 1..Len(rows) |->
        [document |-> rows[k].doc, score |-> (rows[k].score * tenths) \div 10]]

DEFAULT_LIMIT == 10

\* options?.topK || 10
Limit(options) ==
    IF options.topK = <<>> \/ options.topK[1] = 0 THEN DEFAULT_LIMIT
    ELSE options.topK[1]

\* the options object when an array was passed in its place
ArrayAsOptions == [topK |-> <<>>, threshold |-> <<>>, query |-> <<>>]

\* what a search call comes to: its status, its hits, and the outcomes of the
\* client.search requests it made, in the order it made them
Answer(status, hits, searches) == <<status, hits, searches>>

\* MilvusVectorDatabase.search
search(options, o, rank) ==
    IF o = "throw" THEN Answer("threw", <<>>, <<o>>)
    ELSE Answer("ok", ToResults(clientSearch(rank, coll, Limit(options)), 10), <<o>>)

\* the keywords the text filter is built from
Keywords(q) == Range(q)

\* rows that pass  content like '%w1%' or content like '%w2%' ...
Matching(q) == {d \in coll : \E w \in Keywords(q) : w \in Range(d.content)}

\* hybridSearch: whether the request carries a text filter
UsedTextFilter(options, describeOk) ==
    /\ config.enableBM25
    /\ options.query # <<>>
    /\ describeOk
    /\ config.sparseField
    /\ Keywords(options.query) # {}

\* MilvusVectorDatabase.hybridSearch: o1 is the outcome of the search, o2 of
\* the search without filter after an empty answer, o3 of the search without
\* filter after an error
hybridSearch(options, describeOk, o1, o2, o3, rank) ==
    LET limit == Limit(options)
        usedTextFilter == UsedTextFilter(options, describeOk)
        first == clientSearch(rank,
                              IF usedTextFilter THEN Matching(options.query) ELSE coll,
                              limit)
        plain == clientSearch(rank, coll, limit)
        afterError(n) ==
            IF usedTextFilter
            THEN IF o3 = "ok" THEN Answer("ok", ToResults(plain, 8), n \o <<o3>>)
                 ELSE Answer("threw", <<>>, n \o <<o3>>)
            ELSE Answer("threw", <<>>, n)
    IN IF o1 = "throw" THEN afterError(<<o1>>)
       ELSE IF Len(first) = 0
       THEN IF usedTextFilter
            THEN IF o2 = "throw" THEN afterError(<<o1, o2>>)
                 ELSE Answer("ok", ToResults(plain, 9), <<o1, o2>>)
            ELSE Answer("ok", <<>>, <<o1>>)
       ELSE Answer("ok", ToResults(first, 10), <<o1>>)

\* CodeIndexer.semanticSearch: embed the query, search (hybridSearch is
\* called with the query text and the query vector in the places of the
\* vector and the options), map the results
semanticSearch(queryText, topK, threshold, embedOk, describeOk, o1, o2, o3, rank) ==
    IF ~embedOk THEN Answer("threw", <<>>, <<>>)
    ELSE LET searchResult ==
                IF config.enableSparseVectors
                THEN hybridSearch(ArrayAsOptions, describeOk, o1, o2, o3, rank)
                ELSE search([topK |-> <<topK>>, threshold |-> <<threshold>>,
                             query |-> <<>>], o1, rank)
         IN IF searchResult[1] = "threw" THEN searchResult
            ELSE Answer("ok",
                        [k \in 1..Len(searchResult[2]) |->
                            [content |-> searchResult[2][k].document.content,
                             relativePath |-> searchResult[2][k].document.relativePath,
                             startLine |-> searchResult[2][k].document.startLine,
                             endLine |-> searchResult[2][k].document.endLine,
                             score |-> searchResult[2][k].score]],
                        searchResult[3])

CallOutcomes == {"ok", "throw"}

\* what the environment held for a search call: whether the embedding
\* provider and describeCollection answer, and the database's ranking
Answers(embedOk, describeOk, rank) ==
    [embedOk |-> embedOk, describeOk |-> describeOk, rank |-> rank]

\* a collection an indexCodebase has filled, and the scores its documents
\* have for the query; a search leaves the collection as it is, so one call
\* per behaviour shows them all
InitSearch ==
    /\ NoAux
    /\ ncalls = 0
    /\ embedding = MaxDimension
    /\ dimension = embedding
    /\ envBatch = <<>>
    /\ envComments = FALSE
    /\ tree \in Trees
    /\ exists = TRUE
    /\ coll = FullIndexDocs(tree)
    /\ snapshotFile = <<>>
    /\ nedits = 0
    /\ Constructed
    /\ NoIdProbe
    /\ config \in [enableSparseVectors : BOOLEAN, enableBM25 : BOOLEAN,
                   sparseField : BOOLEAN]
    /\ similarity \in [coll -> ScoreValues]
    /\ searchCall = [api |-> "none"]
    /\ searchResults = Answer("none", <<>>, <<>>)

SemanticSearch ==
    /\ searchCall.api = "none"
    /\ \E q \in QueryTexts, k \in 0..MaxTopK, t \in ThresholdValues,
          embedOk \in BOOLEAN, describeOk \in BOOLEAN,
          o1 \in CallOutcomes, o2 \in CallOutcomes, o3 \in CallOutcomes,
          rank \in Rankings(coll) :
            /\ searchCall' = [api |-> "semanticSearch", query |-> q, topK |-> k,
                              threshold |-> t,
                              env |-> Answers(embedOk, describeOk, rank)]
            /\ searchResults' =
                  semanticSearch(q, k, t, embedOk, describeOk, o1, o2, o3, rank)
    /\ UNCHANGED <<auxVars, pipelineVars, idVars, config, similarity>>

\* vectorDatabase.search(collectionName, vector, { topK, threshold })
Search ==
    /\ searchCall.api = "none"
    /\ \E k \in 0..MaxTopK, t \in ThresholdValues, o \in CallOutcomes,
          rank \in Rankings(coll) :
            /\ searchCall' = [api |-> "search", query |-> <<>>, topK |-> k,
                              threshold |-> t,
                              env |-> Answers(TRUE, TRUE, rank)]
            /\ searchResults' = search([topK |-> <<k>>, threshold |-> <<t>>,
                                        query |-> <<>>], o, rank)
    /\ UNCHANGED <<auxVars, pipelineVars, idVars, config, similarity>>

\* vectorDatabase.hybridSearch(collectionName, vector, { topK, threshold, query })
HybridSearch ==
    /\ searchCall.api = "none"
    /\ \E q \in QueryTexts, k \in 0..MaxTopK, t \in ThresholdValues,
          describeOk \in BOOLEAN,
          o1 \in CallOutcomes, o2 \in CallOutcomes, o3 \in CallOutcomes,
          rank \in Rankings(coll) :
            /\ searchCall' = [api |-> "hybridSearch", query |-> q, topK |-> k,
                              threshold |-> t,
                              env |-> Answers(TRUE, describeOk, rank)]
            /\ searchResults' = hybridSearch([topK |-> <<k>>, threshold |-> <<t>>,
                                              query |-> q], describeOk, o1, o2, o3, rank)
    /\ UNCHANGED <<auxVars, pipelineVars, idVars, config, similarity>>

NextSearch ==
    \/ SemanticSearch
    \/ Search
    \/ HybridSearch

SpecSearch == InitSearch /\ [][NextSearch]_vars

\* C10: every hit semanticSearch returns has a score of at least the
\* threshold it was called with
HitsReachThreshold ==
    (searchCall.api = "semanticSearch" /\ searchResults[1] = "ok")
        => \A k \in 1..Len(searchResults[2]) :
              searchResults[2][k].score >= searchCall.threshold

\* position of relative path p in ascending order of the paths
PathIndex(p) == CHOOSE i \in 1..Len(PathOrder) : PathOrder[i] = p

\* hit a may stand before hit b: higher score, or equal score and smaller
\* relative path, or equal score and path and start line not larger
MayPrecede(a, b) ==
    \/ a.score > b.score
    \/ /\ a.score = b.score
       /\ PathIndex(a.relativePath) < PathIndex(b.relativePath)
    \/ /\ a.score = b.score
       /\ a.relativePath = b.relativePath
       /\ a.startLine <= b.startLine

\* C11: the hits semanticSearch returns are in descending order of score,
\* hits of equal score in ascending order of relative path and then of start
\* line, whatever order the database listed them in
HitsSortedWithTieBreak ==
    (searchCall.api = "semanticSearch" /\ searchResults[1] = "ok")
        => \A j, k \in 1..Len(searchResults[2]) :
              j < k => MayPrecede(searchResults[2][j], searchResults[2][k])

\* the options of the hybridSearch call on record
CallOptions ==
    [topK |-> <<searchCall.topK>>, threshold |-> <<searchCall.threshold>>,
     query |-> searchCall.query]

\* the rows the database holds for the call on record, with and without the
\* text filter
FilteredRows ==
    clientSearch(searchCall.env.rank, Matching(searchCall.query), Limit(CallOptions))

PlainRows == clientSearch(searchCall.env.rank, coll, Limit(CallOptions))

\* the hybridSearch call on record carried a text filter, the database
\* answered it, and no row passed the filter
EmptyUnderFilter ==
    /\ searchCall.api = "hybridSearch"
    /\ UsedTextFilter(CallOptions, searchCall.env.describeOk)
    /\ searchResults[3][1] = "ok"
    /\ Len(FilteredRows) = 0

\* the hybridSearch call on record carried no text filter, and the database
\* answered it with no row
EmptyWithoutFilter ==
    /\ searchCall.api = "hybridSearch"
    /\ ~UsedTextFilter(CallOptions, searchCall.env.describeOk)
    /\ searchResults[3][1] = "ok"
    /\ Len(PlainRows) = 0

\* C12: a hybridSearch whose text filter leaves no hit searches again without
\* the filter and returns exactly the hits of that search, in their order,
\* each score multiplied by 0.9; a hybridSearch without text filter returns an
\* empty answer as empty, after one search only
EmptyFilteredFallsBack ==
    /\ EmptyUnderFilter =>
          /\ Len(searchResults[3]) >= 2
          /\ searchResults[3][2] = "ok" =>
                /\ searchResults[1] = "ok"
                /\ Len(searchResults[3]) = 2
                /\ searchResults[2] =
                      [k \in 1..Len(PlainRows) |->
                          [document |-> PlainRows[k].doc,
                           score |-> (PlainRows[k].score * 9) \div 10]]
    /\ EmptyWithoutFilter =>
          /\ searchResults[1] = "ok"
          /\ searchResults[2] = <<>>
          /\ Len(searchResults[3]) = 1

\* a fallback search that returned two hits
FallbackSeen ==
    /\ EmptyUnderFilter
    /\ searchResults[3] = <<"ok", "ok">>
    /\ Len(searchResults[2]) = 2

\* the hybridSearch call on record carried a text filter and the database
\* refused the filtered search
FilteredSearchFailed ==
    /\ searchCall.api = "hybridSearch"
    /\ UsedTextFilter(CallOptions, searchCall.env.describeOk)
    /\ searchResults[3][1] = "throw"

\* C13: when the text-filtered search fails with an error, the error is not
\* passed on: the call returns the hits of the search without filter, every
\* score multiplied by 0.9
FailedHybridFallsBack ==
    FilteredSearchFailed =>
        /\ searchResults[1] = "ok"
        /\ searchResults[2] =
              [k \in 1..Len(PlainRows) |->
                  [document |-> PlainRows[k].doc,
                   score |-> (PlainRows[k].score * 9) \div 10]]

(***************************************************************************)
(* Progress reporting.                                                     *)
(***************************************************************************)
\* the call in progress, or the last one to return, is an indexCodebase or
\* a reindexByChange
IndexingCall ==
    \/ op \in {"index", "reindex"}
    \/ (op = "none" /\ ret.op \in {"index", "reindex"})

\* C14: every percentage indexCodebase and reindexByChange pass to the
\* progress callback is between 0 and 100
PercentageWithinRange ==
    IndexingCall =>
        \A k \in 1..Len(progress) : progress[k] >= 0 /\ progress[k] <= 100

\* C15: within one call of indexCodebase or reindexByChange the percentages
\* passed to the progress callback never decrease
PercentageNeverDecreases ==
    IndexingCall =>
        \A j, k \in 1..Len(progress) : j < k => progress[j] <= progress[k]

(***************************************************************************)
(* The collection: its dimension and its sparse field.  An indexer is      *)
(* constructed over a database without collection, with or without sparse *)
(* vectors, over an adapter with or without enableBM25, and is given other *)
(* embedding providers between its calls.                                  *)
(***************************************************************************)
Dimensions == 1..MaxDimension

\* new CodeIndexer({ embedding, vectorDatabase, enableSparseVectors })
InitCollection ==
    /\ NoAux
    /\ ncalls = 0
    /\ embedding \in Dimensions
    /\ dimension = 0
    /\ envBatch = <<"2">>
    /\ envComments = FALSE
    /\ tree \in Trees
    /\ exists = FALSE
    /\ coll = {}
    /\ snapshotFile = <<>>
    /\ nedits = 0
    /\ Constructed
    /\ config \in [enableSparseVectors : BOOLEAN, enableBM25 : BOOLEAN,
                   sparseField : {FALSE}]
    /\ similarity = <<>>
    /\ searchCall = [api |-> "none"]
    /\ searchResults = Answer("none", <<>>, <<>>)
    /\ NoIdProbe

\* updateEmbedding(embedding): this.embedding = embedding
UpdateEmbedding ==
    /\ pc = "idle"
    /\ \E d \in Dimensions :
          /\ d # embedding
          /\ embedding' = d
    /\ UNCHANGED <<envBatch, envComments, tree, exists, coll, snapshotFile,
                   synchronizers, op, pc, filePaths, fileIdx, chunks, chunkIdx,
                   chunkBuffer, processedFiles, totalChunks, delta, delIdx,
                   ret, ncalls, nedits, nfail, flushLog,
                   appendLog, insertLog, inserted, skipped,
                   failures, deleted, prevSnapshot, streak, idsFirst,
                   indexedTree, owed, progressVars, dimension>>
    /\ UNCHANGED <<searchVars, idVars, ignoreVars, auxVars>>

NextCollection ==
    \/ Next
    \/ UpdateEmbedding

SpecCollection == InitCollection /\ [][NextCollection]_vars

\* C16: every document inserted into the collection has a vector of the
\* dimension the collection was created with
InsertedVectorsHaveCollectionDimension ==
    exists => \A d \in inserted \cup coll : d.vector.dim = dimension

\* C17: the collection prepareCollection created has a sparse field when
\* the indexer was constructed with sparse vectors enabled, and none when
\* it was not
SparseFieldIffRequested ==
    exists => (config.sparseField <=> config.enableSparseVectors)

(***************************************************************************)
(* The ignore patterns of an indexer and the files getCodeFiles finds.     *)
(***************************************************************************)
\* patterns a caller supplies: a directory pattern, a file name, and one of
\* the default patterns
UserPatterns ==
    {<<"gen", "/">>, <<"secret", ".", "java">>, <<"build", "/", "*", "*">>}

UserPatternLists ==
    UNION {[1..n -> UserPatterns] : n \in 0..MaxPatterns}

\* this.supportedExtensions
supportedExtensions == {<<".", "java">>}

\* files a codebase may hold, each as the names on its path
DiskFiles ==
    {<<<<"x", ".", "java">>>>,
     <<<<"build">>, <<"out", ".", "java">>>>,
     <<<<"docs">>, <<"x", ".", "java">>>>,
     <<<<"gen">>, <<"x", ".", "java">>>>,
     <<<<"src">>, <<"secret", ".", "java">>>>,
     <<<<".", "hid">>, <<"x", ".", "java">>>>}

\* constructor: this.ignorePatterns = config.ignorePatterns || DEFAULT_IGNORE_PATTERNS
InitIgnore ==
    /\ NoAux
    /\ ncalls = 0
    /\ embedding = MaxDimension
    /\ dimension = 0
    /\ envBatch = <<>>
    /\ envComments = FALSE
    /\ tree = [p \in Paths |-> 0]
    /\ exists = FALSE
    /\ coll = {}
    /\ snapshotFile = <<>>
    /\ nedits = 0
    /\ synchronizers = <<>>
    /\ op = "none"
    /\ pc = "idle"
    /\ filePaths = <<>>
    /\ fileIdx = 1
    /\ chunks = <<>>
    /\ chunkIdx = 1
    /\ chunkBuffer = <<>>
    /\ processedFiles = 0
    /\ totalChunks = 0
    /\ delta = NoDelta
    /\ delIdx = 1
    /\ ret = Result("none", "none", 0, 0, 0)
    /\ nfail = 0
    /\ flushLog = {}
    /\ appendLog = <<>>
    /\ insertLog = <<>>
    /\ inserted = {}
    /\ skipped = {}
    /\ failures = FALSE
    /\ deleted = {}
    /\ prevSnapshot = <<>>
    /\ streak = 0
    /\ idsFirst = {}
    /\ indexedTree = <<>>
    /\ owed = <<>>
    /\ processedChanges = 0
    /\ progress = <<>>
    /\ NoSearch
    /\ NoIdProbe
    /\ \E given \in {<<>>} \cup {<<l>> : l \in UserPatternLists} :
          /\ ignorePatterns = IF given = <<>> THEN DEFAULT_IGNORE_PATTERNS
                              ELSE given[1]
          /\ userPatterns = IF given = <<>> THEN <<>> ELSE given[1]
    /\ disk \in {files \in SUBSET DiskFiles :
                    Cardinality(files) >= Cardinality(DiskFiles) - 1}
    /\ foundFiles = <<>>

\* updateIgnorePatterns(ignorePatterns)
UpdateIgnorePatterns ==
    /\ \E given \in UserPatternLists :
          /\ ignorePatterns' = Unique(DEFAULT_IGNORE_PATTERNS \o given)
          /\ userPatterns' = given
    /\ UNCHANGED <<disk, foundFiles>>
    /\ UNCHANGED <<envBatch, envComments, tree, exists, coll, snapshotFile,
                   synchronizers, op, pc, filePaths, fileIdx, chunks, chunkIdx,
                   chunkBuffer, processedFiles, totalChunks, delta, delIdx,
                   ret, ncalls, nedits, nfail, flushLog,
                   appendLog, insertLog, inserted, skipped,
                   failures, deleted, prevSnapshot, streak, idsFirst,
                   indexedTree, owed, progressVars, collectionVars>>
    /\ UNCHANGED <<searchVars, idVars, auxVars>>

\* resetIgnorePatternsToDefaults()
ResetIgnorePatternsToDefaults ==
    /\ ignorePatterns' = DEFAULT_IGNORE_PATTERNS
    /\ userPatterns' = <<>>
    /\ UNCHANGED <<disk, foundFiles>>
    /\ UNCHANGED <<envBatch, envComments, tree, exists, coll, snapshotFile,
                   synchronizers, op, pc, filePaths, fileIdx, chunks, chunkIdx,
                   chunkBuffer, processedFiles, totalChunks, delta, delIdx,
                   ret, ncalls, nedits, nfail, flushLog,
                   appendLog, insertLog, inserted, skipped,
                   failures, deleted, prevSnapshot, streak, idsFirst,
                   indexedTree, owed, progressVars, collectionVars>>
    /\ UNCHANGED <<searchVars, idVars, auxVars>>

\* getCodeFiles(codebasePath), the scan indexCodebase starts with
GetCodeFiles ==
    /\ foundFiles' =
          <<[patterns |-> ignorePatterns,
             files |-> {f \in disk :
                          Enumerates(ignorePatterns, supportedExtensions, f)}]>>
    /\ UNCHANGED <<ignorePatterns, userPatterns, disk>>
    /\ UNCHANGED <<envBatch, envComments, tree, exists, coll, snapshotFile,
                   synchronizers, op, pc, filePaths, fileIdx, chunks, chunkIdx,
                   chunkBuffer, processedFiles, totalChunks, delta, delIdx,
                   ret, ncalls, nedits, nfail, flushLog,
                   appendLog, insertLog, inserted, skipped,
                   failures, deleted, prevSnapshot, streak, idsFirst,
                   indexedTree, owed, progressVars, collectionVars>>
    /\ UNCHANGED <<searchVars, idVars, auxVars>>

NextIgnore ==
    \/ ResetIgnorePatternsToDefaults
    \/ UpdateIgnorePatterns
    \/ GetCodeFiles

SpecIgnore == InitIgnore /\ [][NextIgnore]_vars

\* C18: the ignore patterns in effect hold every default pattern and every
\* pattern the caller supplied last, and hold no pattern twice
IgnorePatternsMerged ==
    /\ Range(DEFAULT_IGNORE_PATTERNS) \subseteq Range(ignorePatterns)
    /\ Range(userPatterns) \subseteq Range(ignorePatterns)
    /\ \A j, k \in 1..Len(ignorePatterns) :
          j < k => ignorePatterns[j] # ignorePatterns[k]

\* the file with the given names on its path falls under the pattern: a
\* pattern ending in / names a directory on the path, a pattern without /
\* matches the base name, a pattern with / matches the path from the root of
\* the codebase, or a directory on it
FallsUnder(pattern, parts) ==
    IF pattern[Len(pattern)] = "/"
    THEN \E k \in 1..(Len(parts) - 1) :
            simpleGlobMatch(parts[k], SubSeq(pattern, 1, Len(pattern) - 1))
    ELSE IF "/" \notin Range(pattern)
    THEN simpleGlobMatch(parts[Len(parts)], pattern)
    ELSE LET rooted == IF Head(pattern) = "/" THEN Tail(pattern) ELSE pattern
         IN \E k \in 1..Len(parts) :
               simpleGlobMatch(JoinSlash(SubSeq(parts, 1, k)), rooted)

\* C19: no file getCodeFiles returns falls under an ignore pattern in effect
IgnoredFilesNotEnumerated ==
    foundFiles # <<>> =>
        \A f \in foundFiles[1].files :
            \A k \in 1..Len(foundFiles[1].patterns) :
                ~FallsUnder(foundFiles[1].patterns[k], f)

(***************************************************************************)
(* EnhancedAstSplitter: the chunks of the base splitter, each extended     *)
(* upwards by the comment found above it.  A text is a sequence of tokens; *)
(* "\n" ends a line and " " is white space.                                *)
(***************************************************************************)

MaxCodeLines == 4      \* lines of the file handed to the splitter
MaxNodes == 2          \* chunks the base splitter emits for it

\* the lines a file is made of
LineTexts ==
    {<<" ">>,                    \* white space only
     <<"x">>,                    \* code
     <<"x", "/*", "a", "*/">>,   \* code with a trailing block comment
     <<"//", "a">>,
     <<"/**", "a">>,             \* a documentation comment opens
     <<"/*", "a", "*/">>,        \* a block comment on one line
     <<" ", "*", "a">>,          \* inside a block comment
     <<" ", "*/">>}              \* a block comment closes

\* lines.join('\n')
RECURSIVE JoinLines(_)
JoinLines(lines) ==
    IF lines = <<>> THEN <<>>
    ELSE IF Len(lines) = 1 THEN lines[1]
    ELSE lines[1] \o <<"\n">> \o JoinLines(Tail(lines))

\* text.split('\n')
RECURSIVE SplitLines(_)
SplitLines(text) ==
    IF "\n" \notin Range(text) THEN <<text>>
    ELSE LET k == CHOOSE j \in 1..Len(text) :
                    /\ text[j] = "\n"
                    /\ \A i \in 1..(j - 1) : text[i] # "\n"
         IN <<SubSeq(text, 1, k - 1)>> \o SplitLines(SubSeq(text, k + 1, Len(text)))

\* text.trim()
RECURSIVE trim(_)
trim(text) ==
    IF text = <<>> THEN <<>>
    ELSE IF Head(text) = " " THEN trim(Tail(text))
    ELSE IF text[Len(text)] = " " THEN trim(SubSeq(text, 1, Len(text) - 1))
    ELSE text

\* line.startsWith(prefix), for the prefixes the scan asks about
startsWith(line, prefix) ==
    /\ line # <<>>
    /\ \/ Head(line) = prefix
       \/ Head(line) = "/**" /\ prefix = "/*"
       \/ Head(line) = "*/" /\ prefix = "*"

\* line.endsWith('*/')
endsWith(line, suffix) ==
    /\ line # <<>>
    /\ line[Len(line)] = suffix

\* the while loop of enhanceChunksWithComments, from lineIndex (0-based)
\* upwards: whether a comment was found, and the line it starts at
RECURSIVE scanUp(_, _, _, _, _)
scanUp(codeLines, lineIndex, inComment, foundCommentStart, commentStartLine) ==
    LET stop == [foundCommentStart |-> foundCommentStart,
                 commentStartLine |-> commentStartLine]
    IN IF lineIndex < 0 THEN stop
       ELSE LET line == trim(codeLines[lineIndex + 1])
            IN IF line = <<>>
               THEN IF ~inComment /\ foundCommentStart
                    THEN stop
                    ELSE scanUp(codeLines, lineIndex - 1, inComment,
                                foundCommentStart, commentStartLine)
               ELSE IF /\ ~inComment
                       /\ ~startsWith(line, "//")
                       /\ ~startsWith(line, "/*")
                       /\ ~startsWith(line, "*")
                       /\ ~endsWith(line, "*/")
               THEN stop
               ELSE IF startsWith(line, "/**")
               THEN [foundCommentStart |-> TRUE, commentStartLine |-> lineIndex + 1]
               ELSE IF startsWith(line, "/*")
               THEN [foundCommentStart |-> TRUE, commentStartLine |-> lineIndex + 1]
               ELSE IF endsWith(line, "*/")
               THEN scanUp(codeLines, lineIndex - 1, TRUE, foundCommentStart,
                           commentStartLine)
               ELSE IF startsWith(line, "*")
               THEN scanUp(codeLines, lineIndex - 1, TRUE, foundCommentStart,
                           commentStartLine)
               ELSE IF startsWith(line, "//")
               THEN scanUp(codeLines, lineIndex - 1, TRUE, TRUE,
                           IF ~inComment THEN lineIndex + 1 ELSE commentStartLine)
               ELSE stop

\* an enhanced chunk that keeps the content of the chunk it extends
enhanceChunkKeepingContent(chunk, codeLines) ==
    LET startLine == IF chunk.startLine = 0 THEN 1 ELSE chunk.startLine
        found == scanUp(codeLines, startLine - 2, FALSE, FALSE, startLine)
    IN IF found.foundCommentStart
       THEN [chunk EXCEPT !.startLine = found.commentStartLine]
       ELSE chunk

\* the body of the for loop of enhanceChunksWithComments
enhanceChunk(chunk, codeLines) ==
    LET startLine == IF chunk.startLine = 0 THEN 1 ELSE chunk.startLine
        endLine == IF chunk.endLine = 0 THEN Len(codeLines) ELSE chunk.endLine
        found == scanUp(codeLines, startLine - 2, FALSE, FALSE, startLine)
    IN IF found.foundCommentStart
       THEN [chunk EXCEPT
                !.content = JoinLines(SubSeq(codeLines, found.commentStartLine,
                                             Min(endLine, Len(codeLines)))),
                !.startLine = found.commentStartLine]
       ELSE chunk

enhanceChunksWithComments(original, code) ==
    [k \in 1..Len(original) |-> enhanceChunk(original[k], SplitLines(code))]

\* the files handed to the splitter
Files ==
    UNION {{JoinLines(lines) : lines \in [1..n -> LineTexts]} : n \in 1..MaxCodeLines}

\* the base splitter: chunks of line ranges of the file, in ascending order,
\* no line in two of them
BaseSplit(code) ==
    LET codeLines == SplitLines(code)
        n == Len(codeLines)
        chunk(s, e) == [content |-> JoinLines(SubSeq(codeLines, s, e)),
                        startLine |-> s, endLine |-> e]
        spans == {sp \in (1..n) \X (1..n) : sp[1] <= sp[2]}
    IN UNION {{[k \in 1..m |-> chunk(f[k][1], f[k][2])] :
                  f \in {g \in [1..m -> spans] :
                            \A k \in 1..(m - 1) : g[k][2] < g[k + 1][1]}} :
              m \in 1..MaxNodes}

InitSplit ==
    /\ NoSearch
    /\ NoIdProbe
    /\ NoComments
    /\ NoBatch
    /\ NoRateLimit
    /\ ncalls = 0
    /\ embedding = MaxDimension
    /\ dimension = 0
    /\ envBatch = <<>>
    /\ envComments = FALSE
    /\ tree = [p \in Paths |-> 0]
    /\ exists = FALSE
    /\ coll = {}
    /\ snapshotFile = <<>>
    /\ nedits = 0
    /\ Constructed
    /\ fullCode \in Files
    /\ originalChunks \in BaseSplit(fullCode)
    /\ enhancedChunks = <<>>

\* split(code, language, filePath)
EnhancedSplit ==
    /\ enhancedChunks = <<>>
    /\ enhancedChunks' = <<enhanceChunksWithComments(originalChunks, fullCode)>>
    /\ UNCHANGED <<pipelineVars, searchVars, idVars, commentVars, batchVars,
                   rateVars, fullCode, originalChunks>>

NextSplit == EnhancedSplit

SpecSplit == InitSplit /\ [][NextSplit]_vars

\* the lines of the file, and line n of it without surrounding white space
CodeLines == SplitLines(fullCode)

LineAt(n) == trim(CodeLines[n])

IsBlank(n) == LineAt(n) = <<>>

IsSlashLine(n) == startsWith(LineAt(n), "//")

OpensBlock(n) == startsWith(LineAt(n), "/*")

ClosesBlock(n) == ~IsSlashLine(n) /\ endsWith(LineAt(n), "*/")

InsideBlock(n) ==
    \/ IsBlank(n)
    \/ startsWith(LineAt(n), "*") /\ ~endsWith(LineAt(n), "*/")

IsCodeLine(n) ==
    ~(IsBlank(n) \/ IsSlashLine(n) \/ OpensBlock(n) \/ ClosesBlock(n)
        \/ startsWith(LineAt(n), "*"))

\* the first line of the comment block that ends on the line above line s:
\* a run of // lines, or a block comment from its opening line to its
\* closing line; empty when there is no such block
BlockAbove(s) ==
    IF s = 1 THEN {}
    ELSE IF IsSlashLine(s - 1)
    THEN {t \in 1..(s - 1) :
            /\ \A i \in t..(s - 1) : IsSlashLine(i)
            /\ t > 1 => ~IsSlashLine(t - 1)}
    ELSE IF OpensBlock(s - 1) /\ ClosesBlock(s - 1)
    THEN {s - 1}
    ELSE IF ClosesBlock(s - 1)
    THEN {t \in 1..(s - 2) :
            /\ OpensBlock(t) /\ ~ClosesBlock(t)
            /\ \A i \in (t + 1)..(s - 2) : InsideBlock(i)}
    ELSE {}

\* the lines of the chunks of the base splitter other than chunk k
LinesOfOthers(k) ==
    UNION {originalChunks[j].startLine..originalChunks[j].endLine :
              j \in (1..Len(originalChunks)) \ {k}}

\* C22: a chunk whose node has a comment block ending on the line above it,
\* a run of // lines or a block comment, starts at the first line of that
\* block and its content is the text from that line to the end of the node
LeadingCommentAttached ==
    enhancedChunks # <<>> =>
        \A k \in 1..Len(originalChunks) :
            \A top \in BlockAbove(originalChunks[k].startLine) :
                (top..(originalChunks[k].startLine - 1)) \cap LinesOfOthers(k) = {}
                => /\ enhancedChunks[1][k].startLine = top
                   /\ enhancedChunks[1][k].content =
                         JoinLines(SubSeq(CodeLines, top, originalChunks[k].endLine))

\* C23: a chunk with a blank line above its node is returned as the base
\* splitter made it; a block comment with blank lines inside is attached
\* from its opening line; and no line of code lies between the start of a
\* chunk and its node
BlankLineEndsScan ==
    enhancedChunks # <<>> =>
        \A k \in 1..Len(originalChunks) :
            LET s == originalChunks[k].startLine
            IN /\ (s > 1 /\ IsBlank(s - 1)) =>
                     enhancedChunks[1][k] = originalChunks[k]
               /\ (s > 1 /\ ClosesBlock(s - 1) /\ ~OpensBlock(s - 1)) =>
                     \A top \in BlockAbove(s) : enhancedChunks[1][k].startLine = top
               /\ \A i \in enhancedChunks[1][k].startLine..(s - 1) : ~IsCodeLine(i)

\* C24: every chunk returned has 1 <= startLine <= endLine, the endLine of the
\* chunk it extends, a startLine no greater than that chunk's, and a content
\* of endLine - startLine + 1 lines
EnhancedChunkWellFormed ==
    enhancedChunks # <<>> =>
        /\ Len(enhancedChunks[1]) = Len(originalChunks)
        /\ \A k \in 1..Len(originalChunks) :
              LET c == enhancedChunks[1][k]
              IN /\ 1 <= c.startLine
                 /\ c.startLine <= c.endLine
                 /\ c.endLine = originalChunks[k].endLine
                 /\ c.startLine <= originalChunks[k].startLine
                 /\ Len(SplitLines(c.content)) = c.endLine - c.startLine + 1

\* a chunk was extended over the comment above it
ChunkExtended ==
    /\ enhancedChunks # <<>>
    /\ \E k \in 1..Len(originalChunks) :
          enhancedChunks[1][k].startLine < originalChunks[k].startLine

\* C25: no chunk returned starts at or above the last line of a chunk before
\* it, so no line of the file belongs to two of the chunks returned
ExtensionKeepsChunksApart ==
    enhancedChunks # <<>> =>
        \A j, k \in 1..Len(originalChunks) :
            j < k => enhancedChunks[1][j].endLine < enhancedChunks[1][k].startLine

(***************************************************************************)
(* generateChunkComments: the chunks are cut into batches, the batches of  *)
(* a group are sent to the comment service at once, and each call writes   *)
(* its results into resultChunks when its answer arrives.                  *)
(***************************************************************************)

MaxCommentChunks == 12 \* chunks handed to generateChunkComments

MAX_PARALLEL_BATCHES == 20

\* the chunks of one flush: chunk k spans line k of the file
CommentChunks(n) ==
    [k \in 1..n |->
        [content |-> <<"c">> \o Digits(k % 2),
         filePath |-> PathJoin(CodebasePath, FileA),
         startLine |-> k, endLine |-> k]]

\* batches.length
NumBatches(n) == (n + BATCH_SIZE - 1) \div BATCH_SIZE

\* batches[batchNumber].length
BatchLength(n, batchNumber) == Min(BATCH_SIZE, n - batchNumber * BATCH_SIZE)

\* what generateCode comes to for a batch of the given length: it throws, it
\* answers with text that is no JSON, or with an array of count entries whose
\* chunkIndex is the global one or counts from 0
Responses(len) ==
    {[kind |-> "error"], [kind |-> "text"]}
        \cup {[kind |-> "json", count |-> m, global |-> g] :
                 m \in {len - 1, len, len + 1}, g \in BOOLEAN}

\* commentsData as the apply loop finds it
commentsData(batchNumber, len, response) ==
    LET batchStartIndex == batchNumber * BATCH_SIZE
        parsed == [i \in 1..response.count |->
                     [chunkIndex |-> IF response.global
                                     THEN batchStartIndex + i - 1 ELSE i - 1,
                      comments |-> <<"comment">> \o Digits(batchNumber)
                                      \o <<".">> \o Digits(i - 1)]]
        fixed == [i \in 1..response.count |->
                     IF parsed[i].chunkIndex # batchStartIndex + i - 1
                     THEN [parsed[i] EXCEPT !.chunkIndex = batchStartIndex + i - 1]
                     ELSE parsed[i]]
        expected == [i \in 1..len |-> batchStartIndex + i - 1]
        missing == SelectSeq(expected,
                      LAMBDA e : \A i \in 1..response.count : fixed[i].chunkIndex # e)
    IN IF response.kind = "text"
       THEN [i \in 1..len |->
                [chunkIndex |-> batchStartIndex + i - 1, comments |-> <<"unparsed">>]]
       ELSE IF response.count < len
       THEN fixed \o [i \in 1..Len(missing) |->
                         [chunkIndex |-> missing[i], comments |-> <<"placeholder">>]]
       ELSE fixed

\* the chunk a result is derived from, taken by its position in the batch
originalChunkOfBatch(allChunks, chunkIndex) ==
    allChunks[(chunkIndex % BATCH_SIZE) + 1]

\* const originalChunk = allChunks[chunkIndex]
originalChunk(allChunks, chunkIndex) ==
    allChunks[chunkIndex + 1]

\* the content written to resultChunks[chunkIndex]
enrichedContent(chunkIndex, chunk, comments) ==
    <<"#">> \o Digits(chunkIndex) \o chunk.content \o <<"##">> \o comments

\* the loop over commentsData that writes resultChunks
RECURSIVE applyComments(_, _, _)
applyComments(result, allChunks, data) ==
    IF data = <<>> THEN result
    ELSE LET chunkIndex == Head(data).chunkIndex
             written ==
                 IF /\ chunkIndex >= 0
                    /\ chunkIndex < Len(allChunks)
                    /\ result[chunkIndex + 1].content = allChunks[chunkIndex + 1].content
                 THEN [result EXCEPT ![chunkIndex + 1] =
                         [originalChunk(allChunks, chunkIndex) EXCEPT
                             !.content = enrichedContent(chunkIndex,
                                            originalChunk(allChunks, chunkIndex),
                                            Head(data).comments)]]
                 ELSE result
         IN applyComments(written, allChunks, Tail(data))

\* processCommentBatch from the answer of generateCode on
processCommentBatch(result, allChunks, batchNumber, response) ==
    IF response.kind = "error" THEN result
    ELSE applyComments(result, allChunks,
            commentsData(batchNumber, BatchLength(Len(allChunks), batchNumber),
                         response))

\* the batches of the group that starts at batch i
Group(n, i) == {b \in 0..(NumBatches(n) - 1) : i <= b /\ b < i + MAX_PARALLEL_BATCHES}

InitComments ==
    /\ NoSearch
    /\ NoIdProbe
    /\ NoSplit
    /\ NoBatch
    /\ NoRateLimit
    /\ ncalls = 0
    /\ embedding = MaxDimension
    /\ dimension = 0
    /\ envBatch = <<>>
    /\ envComments = TRUE
    /\ tree = [p \in Paths |-> 0]
    /\ exists = FALSE
    /\ coll = {}
    /\ snapshotFile = <<>>
    /\ nedits = 0
    /\ Constructed
    /\ commentInput \in {CommentChunks(n) : n \in 1..MaxCommentChunks}
    /\ resultChunks = <<>>
    /\ groupStart = 0
    /\ pendingBatches = {}
    /\ commentsPc = "idle"
    /\ completionOrder = <<>>
    /\ commentDocs = <<>>

\* generateChunkComments up to the first await: the calls of the first group
\* are under way
GenerateChunkComments ==
    /\ commentsPc = "idle"
    /\ commentsPc' = "awaiting"
    /\ resultChunks' = commentInput
    /\ groupStart' = 0
    /\ pendingBatches' = Group(Len(commentInput), 0)
    /\ UNCHANGED <<commentInput, completionOrder, commentDocs>>
    /\ UNCHANGED <<pipelineVars, searchVars, idVars, splitVars, batchVars,
                   rateVars>>

\* the answer to one of the calls in flight arrives and the call runs to its end
SettleCommentBatch ==
    /\ commentsPc = "awaiting"
    /\ \E b \in pendingBatches :
          \E response \in Responses(BatchLength(Len(commentInput), b)) :
              /\ resultChunks' = processCommentBatch(resultChunks, commentInput,
                                                     b, response)
              /\ pendingBatches' = pendingBatches \ {b}
              /\ completionOrder' = Append(completionOrder, b)
    /\ UNCHANGED <<commentInput, groupStart, commentsPc, commentDocs>>
    /\ UNCHANGED <<pipelineVars, searchVars, idVars, splitVars, batchVars,
                   rateVars>>

\* await Promise.all(batchPromises): the next group is sent, or the call
\* returns resultChunks and processChunkBatch builds the documents
AwaitAllBatches ==
    /\ commentsPc = "awaiting"
    /\ pendingBatches = {}
    /\ IF groupStart + MAX_PARALLEL_BATCHES < NumBatches(Len(commentInput))
       THEN /\ groupStart' = groupStart + MAX_PARALLEL_BATCHES
            /\ pendingBatches' = Group(Len(commentInput), groupStart')
            /\ UNCHANGED <<commentsPc, commentDocs>>
       ELSE /\ commentsPc' = "done"
            /\ commentDocs' = Documents(commentInput,
                                 [k \in 1..Len(resultChunks) |-> resultChunks[k].content])
            /\ UNCHANGED <<groupStart, pendingBatches>>
    /\ UNCHANGED <<commentInput, resultChunks, completionOrder>>
    /\ UNCHANGED <<pipelineVars, searchVars, idVars, splitVars, batchVars,
                   rateVars>>

NextComments ==
    \/ GenerateChunkComments
    \/ SettleCommentBatch
    \/ AwaitAllBatches

SpecComments == InitComments /\ [][NextComments]_vars

\* the chunk is input chunk k, with its content or with a content that
\* generateChunkComments made of it
DerivedFrom(chunk, k) ==
    /\ [chunk EXCEPT !.content = commentInput[k].content] = commentInput[k]
    /\ \/ chunk.content = commentInput[k].content
       \/ /\ Len(chunk.content) > Len(<<"#">> \o Digits(k - 1) \o commentInput[k].content)
          /\ SubSeq(chunk.content, 1,
                    Len(<<"#">> \o Digits(k - 1) \o commentInput[k].content))
                = <<"#">> \o Digits(k - 1) \o commentInput[k].content

\* C26: whatever order the calls settle in, resultChunks is as long as the
\* input and holds at position k a chunk derived from input chunk k; the
\* documents built afterwards are, vectors aside, those of the input chunks
\* in their order, each with the vector of the text at its position
ResultsKeepPositions ==
    /\ commentsPc # "idle" =>
          /\ Len(resultChunks) = Len(commentInput)
          /\ \A k \in 1..Len(commentInput) : DerivedFrom(resultChunks[k], k)
    /\ commentsPc = "done" =>
          /\ Len(commentDocs) = Len(commentInput)
          /\ \A k \in 1..Len(commentInput) :
                /\ commentDocs[k].vector = Embed(resultChunks[k].content)
                /\ [commentDocs[k] EXCEPT !.vector = 0]
                      = [MakeDocument(commentInput[k], k, 0) EXCEPT !.vector = 0]

\* the second batch settled before the first, both with comments
SettledOutOfOrder ==
    /\ commentsPc = "done"
    /\ completionOrder = <<1, 0>>
    /\ resultChunks[1].content # commentInput[1].content
    /\ resultChunks[Len(resultChunks)].content
          # commentInput[Len(commentInput)].content

(***************************************************************************)
(* Further claims about the search calls.                                  *)
(***************************************************************************)
\* C31: semanticSearch returns no more results than the topK it was called with
ResultsAtMostTopK ==
    searchCall.api = "semanticSearch" =>
        Len(searchResults[2]) <= searchCall.topK

(***************************************************************************)
(* Further claims about processFileList and processChunkBuffer.            *)
(***************************************************************************)
\* C32: when processFileList is through, every chunk pushed on the buffer
\* went into one flush and no more; the flush after the loop carried what
\* was left, at least one chunk and fewer than the batch size, and every
\* other flush carried as many chunks as the batch size
EveryChunkFlushedOnce ==
    pc = "return" =>
        /\ \A k \in 1..Len(appendLog) :
              Cardinality({f \in flushLog : appendLog[k] \in f.batch}) = 1
        /\ \A f \in flushLog :
              IF chunkBuffer # <<>> /\ f.batch = Range(chunkBuffer)
              THEN /\ Cardinality(f.batch) >= 1
                   /\ LessThan(Num(Cardinality(f.batch)), EMBEDDING_BATCH_SIZE)
              ELSE /\ ~EMBEDDING_BATCH_SIZE.nan
                   /\ Cardinality(f.batch) = EMBEDDING_BATCH_SIZE.val

\* the insert requests of this call that carried the documents of the batch
InsertRequestsFor(batch) ==
    {r \in 1..Len(insertLog) :
        \A k \in 1..Len(insertLog[r]) : \E c \in batch : DocOf(c, insertLog[r][k])}

\* C33: a flush whose first attempt succeeded made no second; a flush whose
\* first attempt failed made one more, on the texts of the chunks as the
\* splitter gave them, and its documents carry the vectors of those texts
\* when that attempt succeeded; a batch has no document in the collection
\* only if both attempts failed; and no batch was handed to insert more
\* than twice
RetriedOnceOnOriginalText ==
    \A f \in flushLog :
        /\ f.first = "ok" => f.second = "none"
        /\ f.first # "ok" => f.second \in {"ok", "embedFail", "insertFail"}
        /\ (f.first # "ok" /\ f.second = "ok") =>
              \A c \in f.batch :
                  \E d \in inserted : DocOf(c, d) /\ d.vector = Embed(c.content)
        /\ (\E c \in f.batch : ~\E d \in inserted : DocOf(c, d)) =>
              (f.first # "ok" /\ f.second # "ok")
        /\ Cardinality(InsertRequestsFor(f.batch)) =
              (IF f.first # "embedFail" THEN 1 ELSE 0)
                  + (IF f.first # "ok" /\ f.second # "embedFail" THEN 1 ELSE 0)
        /\ Cardinality(InsertRequestsFor(f.batch)) <= 2

\* a batch went to insert with the vectors of its enriched texts, the insert
\* failed, and the batch went in with the vectors of its original texts
RetryAfterEnrichedAttempt ==
    \E r \in 1..(Len(insertLog) - 1) :
        /\ insertLog[r][1].vector = Embed(Enriched(insertLog[r][1].content))
        /\ insertLog[r + 1][1].id = insertLog[r][1].id
        /\ insertLog[r + 1][1].vector = Embed(insertLog[r][1].content)
        /\ insertLog[r + 1][1] \in inserted

\* C34: a call of processCommentBatch changes resultChunks only at the
\* positions of the chunks of its own batch, whatever the response holds
BatchWritesOwnSlots ==
    [][\A b \in pendingBatches \ pendingBatches' :
          \A k \in 1..Len(resultChunks) :
              resultChunks'[k] # resultChunks[k] =>
                  /\ k - 1 >= b * BATCH_SIZE
                  /\ k - 1 < b * BATCH_SIZE + BatchLength(Len(commentInput), b)]_vars

\* C35: a reindexByChange whose delta is empty ends at once: it makes no
\* query, delete, embed or insert call, the collection is as it was, and
\* the call returns added 0, removed 0, modified 0
EmptyDeltaChangesNothing ==
    [][(/\ ncalls' = ncalls + 1
        /\ progress' \in {<<0>>, <<0, 100>>}
        /\ delta'.added = <<>>
        /\ delta'.removed = <<>>
        /\ delta'.modified = <<>>)
       => /\ coll' = coll
          /\ exists' = exists
          /\ pc' = "idle"
          /\ op' = "none"
          /\ ret' = Result("reindex", "ok", 0, 0, 0)
          /\ flushLog' = {}
          /\ insertLog' = <<>>
          /\ inserted' = {}
          /\ deleted' = {}]_vars

\* reindexByChange found no change in a codebase whose collection has documents
NoChangeOnIndexedCodebase ==
    /\ pc = "idle"
    /\ ret = Result("reindex", "ok", 0, 0, 0)
    /\ progress = <<0, 100>>
    /\ delta.added = <<>> /\ delta.removed = <<>> /\ delta.modified = <<>>
    /\ coll # {}

(***************************************************************************)
(* A codebase that holds a source file and a file of another kind.         *)
(***************************************************************************)
MixedTrees == [{FileA, FileNotes} -> 0..MaxContent]

\* as InitPipeline, for a codebase of a.java and notes.txt
InitMixed ==
    /\ ncalls = 0
    /\ embedding = MaxDimension
    /\ envBatch = <<"2">>
    /\ envComments \in BOOLEAN
    /\ tree \in MixedTrees
    /\ \/ /\ exists = FALSE
          /\ dimension = 0
          /\ coll = {}
          /\ snapshotFile = <<>>
          /\ nedits = 0
       \/ \E t0 \in MixedTrees :
            /\ exists = TRUE
            /\ dimension = embedding
            /\ coll = FullIndexDocs(t0)
            /\ snapshotFile = <<HashTree(t0)>>
            /\ nedits = Cardinality({p \in DOMAIN tree : t0[p] # tree[p]})
    /\ Constructed
    /\ NoSearch
    /\ NoIdProbe
    /\ NoAux

SpecMixed == InitMixed /\ [][Next]_vars

\* C36: the files reindexByChange hands to processFileList have a supported
\* extension, and so has every document of the collection after any
\* sequence of indexCodebase and reindexByChange calls
ReindexedFilesAreSupported ==
    /\ op = "reindex" =>
          \A k \in 1..Len(filePaths) :
              ExtName(filePaths[k]) \in DEFAULT_SUPPORTED_EXTENSIONS
    /\ \A d \in coll : d.fileExtension \in DEFAULT_SUPPORTED_EXTENSIONS

\* C37: when clearIndex has returned, the indexer holds no synchronizer for
\* the codebase, so that the next reindexByChange starts from a newly
\* initialised one
ClearIndexForgetsSynchronizer ==
    (pc = "idle" /\ ret.op = "clear") => synchronizers = <<>>

(***************************************************************************)
(* processChunkBatch on its own: embedBatch answers with some number of    *)
(* vectors or fails, the documents are built, insert succeeds or fails.    *)
(***************************************************************************)
MaxBatchChunks == 3 \* chunks handed to processChunkBatch

\* chunk lists: chunk k spans line k of a.java; the last chunk may lack its
\* filePath
BatchChunkLists ==
    UNION {{[k \in 1..n |->
                [content |-> <<"c">> \o Digits(body[k]),
                 filePath |-> IF k = n /\ ~pathGiven THEN <<>>
                              ELSE PathJoin(CodebasePath, FileA),
                 startLine |-> k, endLine |-> k]] :
              body \in [1..n -> 1..2], pathGiven \in BOOLEAN} :
           n \in 1..MaxBatchChunks}

\* what embedBatch may answer for the texts: count vectors, those of the
\* first texts in their order, and a further one when count is larger
Embeddings(texts, count) ==
    [k \in 1..count |-> IF k <= Len(texts) THEN Embed(texts[k]) ELSE Embed(<<>>)]

\* documents built for as many chunks as there are vectors
prepareDocumentsForVectors(chs, embeddings) ==
    IF \E k \in 1..Min(Len(chs), Len(embeddings)) : chs[k].filePath = <<>>
    THEN [threw |-> TRUE, docs |-> <<>>]
    ELSE [threw |-> FALSE,
          docs |-> [k \in 1..Min(Len(chs), Len(embeddings)) |->
                       MakeDocument(chs[k], k, embeddings[k])]]

\* const documents = chunks.map((chunk, index) => ...): a chunk without
\* filePath throws, and so does reading .vector of an embedding that is
\* not there
prepareDocuments(chs, embeddings) ==
    IF \E k \in 1..Len(chs) : chs[k].filePath = <<>> \/ k > Len(embeddings)
    THEN [threw |-> TRUE, docs |-> <<>>]
    ELSE [threw |-> FALSE,
          docs |-> [k \in 1..Len(chs) |-> MakeDocument(chs[k], k, embeddings[k])]]

\* processChunkBatch(codebasePath, chunks, enhancedChunks) has been called
\* and awaits embedBatch
InitBatch ==
    /\ NoSearch
    /\ NoIdProbe
    /\ NoSplit
    /\ NoComments
    /\ NoRateLimit
    /\ ncalls = 0
    /\ embedding = MaxDimension
    /\ dimension = 0
    /\ envBatch = <<>>
    /\ envComments = TRUE
    /\ tree = [p \in Paths |-> 0]
    /\ exists = FALSE
    /\ coll = {}
    /\ snapshotFile = <<>>
    /\ nedits = 0
    /\ Constructed
    /\ batchChunks \in BatchChunkLists
    /\ \E enhanced \in BOOLEAN :
          batchTexts = [k \in 1..Len(batchChunks) |->
                           IF enhanced THEN Enriched(batchChunks[k].content)
                           ELSE batchChunks[k].content]
    /\ batchEmbeddings = <<>>
    /\ batchRequests = <<>>
    /\ batchStored = {}
    /\ batchPc = "embedding"

\* embedBatch settles: an error ends the call; with its vectors the
\* documents are built and handed to insert, unless building them throws
EmbedBatchSettles ==
    /\ batchPc = "embedding"
    /\ \/ /\ batchPc' = "threw"
          /\ UNCHANGED <<batchEmbeddings, batchRequests>>
       \/ \E count \in 0..(Len(batchChunks) + 1) :
             LET embeddings == Embeddings(batchTexts, count)
                 prepared == prepareDocuments(batchChunks, embeddings)
             IN /\ batchEmbeddings' = <<embeddings>>
                /\ IF prepared.threw
                   THEN /\ batchPc' = "threw"
                        /\ UNCHANGED batchRequests
                   ELSE /\ batchPc' = "inserting"
                        /\ batchRequests' = Append(batchRequests, prepared.docs)
    /\ UNCHANGED <<batchChunks, batchTexts, batchStored>>
    /\ UNCHANGED <<pipelineVars, searchVars, idVars, splitVars, commentVars,
                   rateVars>>

\* vectorDatabase.insert settles: the rows of the request are stored, or
\* none is and the error ends the call
InsertSettles ==
    /\ batchPc = "inserting"
    /\ \/ /\ batchStored' = batchStored \cup Range(batchRequests[Len(batchRequests)])
          /\ batchPc' = "returned"
       \/ /\ batchPc' = "threw"
          /\ UNCHANGED batchStored
    /\ UNCHANGED <<batchChunks, batchTexts, batchEmbeddings, batchRequests>>
    /\ UNCHANGED <<pipelineVars, searchVars, idVars, splitVars, commentVars,
                   rateVars>>

NextBatch ==
    \/ EmbedBatchSettles
    \/ InsertSettles

SpecBatch == InitBatch /\ [][NextBatch]_vars

\* C38: insert is called at most once, with one document per chunk of the
\* batch, document k built from chunk k with the k-th vector; the
\* collection holds all the documents of the request or none of them; and
\* when embedBatch answered with fewer vectors than chunks, insert was not
\* called and the collection holds no document of the batch
BatchInsertedWholeOrNotAtAll ==
    /\ Len(batchRequests) <= 1
    /\ \A r \in 1..Len(batchRequests) :
          /\ Len(batchRequests[r]) = Len(batchChunks)
          /\ \A k \in 1..Len(batchChunks) :
                /\ DocOf(batchChunks[k], batchRequests[r][k])
                /\ batchRequests[r][k].vector = batchEmbeddings[1][k]
                /\ batchRequests[r][k].chunkIndex = k - 1
          /\ batchStored \in {{}, Range(batchRequests[r])}
    /\ batchRequests = <<>> => batchStored = {}
    /\ (batchEmbeddings # <<>> /\ Len(batchEmbeddings[1]) < Len(batchChunks))
          => /\ batchRequests = <<>>
             /\ batchStored = {}
             /\ batchPc = "threw"

\* embedBatch answered with vectors for all chunks but the last
OneVectorMissing ==
    /\ Len(batchChunks) >= 2
    /\ batchEmbeddings # <<>>
    /\ Len(batchEmbeddings[1]) = Len(batchChunks) - 1
    /\ batchPc = "threw"

(***************************************************************************)
(* RateLimitedVoyageEmbedding (examples/basic-usage/indexCodebase.ts): the *)
(* queue of embedding requests, the counters and their timers.  A text is  *)
(* its length in characters.  Time is followed as far as the code looks at *)
(* it: whether MIN_REQUEST_DELAY_MS has passed since the last call.        *)
(***************************************************************************)
MaxRequests == 3 \* requests callers place on the queue

Max429 == 1 \* 429 answers of the upstream service

MAX_REQUESTS_PER_MINUTE == 2

MAX_TOKENS_PER_MINUTE == 9000

MAX_BATCH_SIZE == 2

\* the text lists of the requests: one or two texts, as embedBatch cuts them
RequestTexts == {<<16000>>, <<24000>>, <<24000, 24000>>}

\* texts.reduce((sum, text) => sum + Math.ceil(text.length / 4), 0)
RECURSIVE estimateTokens(_)
estimateTokens(texts) ==
    IF texts = <<>> THEN 0
    ELSE ((Head(texts) + 3) \div 4) + estimateTokens(Tail(texts))

\* a request put back behind the requests that wait
unshiftLast(queue, request) == Append(queue, request)

\* this.embeddingQueue.unshift(request)
unshift(queue, request) == <<request>> \o queue

\* processQueue() run on the given values of embeddingQueue,
\* processingQueue, tokenCount and requestCount, of the wait timer and of
\* the calls in flight
processQueue(queue, processing, tokens, requests, timer, calls) ==
    IF processing \/ queue = <<>>
    THEN /\ embeddingQueue' = queue
         /\ processingQueue' = processing
         /\ tokenCount' = tokens
         /\ requestCount' = requests
         /\ delayTimer' = timer
         /\ inFlight' = calls
         /\ UNCHANGED <<delayElapsed, sentLog>>
    ELSE LET request == Head(queue)
             estimatedTokens == estimateTokens(request.texts)
         IN IF \/ tokens + estimatedTokens > MAX_TOKENS_PER_MINUTE
               \/ requests >= MAX_REQUESTS_PER_MINUTE
            THEN /\ embeddingQueue' = unshift(Tail(queue), request)
                 /\ processingQueue' = FALSE
                 /\ tokenCount' = tokens
                 /\ requestCount' = requests
                 /\ delayTimer' = timer
                 /\ inFlight' = calls
                 /\ UNCHANGED <<delayElapsed, sentLog>>
            ELSE IF ~delayElapsed
            THEN /\ embeddingQueue' = unshift(Tail(queue), request)
                 /\ processingQueue' = TRUE
                 /\ tokenCount' = tokens
                 /\ requestCount' = requests
                 /\ delayTimer' = TRUE
                 /\ inFlight' = calls
                 /\ UNCHANGED <<delayElapsed, sentLog>>
            ELSE /\ embeddingQueue' = Tail(queue)
                 /\ processingQueue' = TRUE
                 /\ tokenCount' = tokens + estimatedTokens
                 /\ requestCount' = requests + 1
                 /\ delayTimer' = timer
                 /\ delayElapsed' = FALSE
                 /\ inFlight' = calls \cup {request}
                 /\ sentLog' = Append(sentLog,
                                  [id |-> request.id, tokens |-> estimatedTokens,
                                   tokenCount |-> tokens, requestCount |-> requests])

\* the constructor has run: both counters are 0 and their timers are set
InitRateLimit ==
    /\ NoSearch
    /\ NoIdProbe
    /\ NoSplit
    /\ NoComments
    /\ NoBatch
    /\ ncalls = 0
    /\ embedding = MaxDimension
    /\ dimension = 0
    /\ envBatch = <<>>
    /\ envComments = FALSE
    /\ tree = [p \in Paths |-> 0]
    /\ exists = FALSE
    /\ coll = {}
    /\ snapshotFile = <<>>
    /\ nedits = 0
    /\ Constructed
    /\ NoRateLimit

\* embedBatchWithRateLimit(texts): the request is pushed and processQueue runs
EmbedBatchWithRateLimit ==
    /\ nextRequest <= MaxRequests
    /\ \E texts \in RequestTexts :
          processQueue(Append(embeddingQueue, [id |-> nextRequest, texts |-> texts]),
                       processingQueue, tokenCount, requestCount, delayTimer,
                       inFlight)
    /\ nextRequest' = nextRequest + 1
    /\ UNCHANGED <<retryTimer, nextTimers, n429, resolved, rejected>>
    /\ UNCHANGED <<pipelineVars, searchVars, idVars, splitVars, commentVars,
                   batchVars>>

\* the timer of resetTokenCounter fires: tokenCount = 0, the timer is set
\* again, processQueue runs
ResetTokenCounter ==
    /\ processQueue(embeddingQueue, processingQueue, 0, requestCount, delayTimer,
                    inFlight)
    /\ UNCHANGED <<retryTimer, nextTimers, nextRequest, n429, resolved, rejected>>
    /\ UNCHANGED <<pipelineVars, searchVars, idVars, splitVars, commentVars,
                   batchVars>>

\* the timer of resetRequestCounter fires: requestCount = 0, the timer is
\* set again, processQueue runs
ResetRequestCounter ==
    /\ processQueue(embeddingQueue, processingQueue, tokenCount, 0, delayTimer,
                    inFlight)
    /\ UNCHANGED <<retryTimer, nextTimers, nextRequest, n429, resolved, rejected>>
    /\ UNCHANGED <<pipelineVars, searchVars, idVars, splitVars, commentVars,
                   batchVars>>

\* MIN_REQUEST_DELAY_MS have passed since lastEmbedTime
MinDelayPasses ==
    /\ ~delayElapsed
    /\ delayElapsed' = TRUE
    /\ UNCHANGED <<embeddingQueue, processingQueue, tokenCount, requestCount,
                   delayTimer, retryTimer, nextTimers, inFlight, nextRequest,
                   n429, sentLog, resolved, rejected>>
    /\ UNCHANGED <<pipelineVars, searchVars, idVars, splitVars, commentVars,
                   batchVars>>

\* the timer of the rate limit wait fires, waitTime after it was set:
\* processingQueue = false, processQueue runs
DelayTimerFires ==
    /\ delayTimer
    /\ delayElapsed
    /\ processQueue(embeddingQueue, FALSE, tokenCount, requestCount, FALSE,
                    inFlight)
    /\ UNCHANGED <<retryTimer, nextTimers, nextRequest, n429, resolved, rejected>>
    /\ UNCHANGED <<pipelineVars, searchVars, idVars, splitVars, commentVars,
                   batchVars>>

\* super.embedBatch resolves: the promise of the request is resolved,
\* processingQueue = false, and a timer is set that will run processQueue
UpstreamResolves ==
    /\ \E request \in inFlight :
          /\ inFlight' = inFlight \ {request}
          /\ resolved' = resolved \cup {request.id}
    /\ processingQueue' = FALSE
    /\ nextTimers' = nextTimers + 1
    /\ UNCHANGED <<embeddingQueue, tokenCount, requestCount, delayElapsed,
                   delayTimer, retryTimer, nextRequest, n429, sentLog, rejected>>
    /\ UNCHANGED <<pipelineVars, searchVars, idVars, splitVars, commentVars,
                   batchVars>>

\* super.embedBatch rejects with a 429: the request goes back to the front
\* of the queue and a timer of a minute is set
UpstreamAnswers429 ==
    /\ n429 < Max429
    /\ \E request \in inFlight :
          /\ inFlight' = inFlight \ {request}
          /\ embeddingQueue' = unshift(embeddingQueue, request)
    /\ retryTimer' = TRUE
    /\ n429' = n429 + 1
    /\ UNCHANGED <<processingQueue, tokenCount, requestCount, delayElapsed,
                   delayTimer, nextTimers, nextRequest, sentLog, resolved,
                   rejected>>
    /\ UNCHANGED <<pipelineVars, searchVars, idVars, splitVars, commentVars,
                   batchVars>>

\* super.embedBatch rejects with another error: the promise of the request
\* is rejected, processingQueue = false, processQueue runs
UpstreamFails ==
    /\ \E request \in inFlight :
          /\ rejected' = rejected \cup {request.id}
          /\ processQueue(embeddingQueue, FALSE, tokenCount, requestCount,
                          delayTimer, inFlight \ {request})
    /\ UNCHANGED <<retryTimer, nextTimers, nextRequest, n429, resolved>>
    /\ UNCHANGED <<pipelineVars, searchVars, idVars, splitVars, commentVars,
                   batchVars>>

\* the timer set after a 429 fires: processingQueue = false, processQueue runs
RetryTimerFires ==
    /\ retryTimer
    /\ retryTimer' = FALSE
    /\ processQueue(embeddingQueue, FALSE, tokenCount, requestCount, delayTimer,
                    inFlight)
    /\ UNCHANGED <<nextTimers, nextRequest, n429, resolved, rejected>>
    /\ UNCHANGED <<pipelineVars, searchVars, idVars, splitVars, commentVars,
                   batchVars>>

\* a timer set after a successful call fires: processQueue runs
NextTimerFires ==
    /\ nextTimers > 0
    /\ nextTimers' = nextTimers - 1
    /\ processQueue(embeddingQueue, processingQueue, tokenCount, requestCount,
                    delayTimer, inFlight)
    /\ UNCHANGED <<retryTimer, nextRequest, n429, resolved, rejected>>
    /\ UNCHANGED <<pipelineVars, searchVars, idVars, splitVars, commentVars,
                   batchVars>>

\* super.embedBatch settles in one of its three ways
UpstreamSettles ==
    \/ UpstreamResolves
    \/ UpstreamAnswers429
    \/ UpstreamFails

NextRateLimit ==
    \/ EmbedBatchWithRateLimit
    \/ ResetTokenCounter
    \/ ResetRequestCounter
    \/ MinDelayPasses
    \/ DelayTimerFires
    \/ UpstreamResolves
    \/ UpstreamAnswers429
    \/ UpstreamFails
    \/ RetryTimerFires
    \/ NextTimerFires

SpecRateLimit == InitRateLimit /\ [][NextRateLimit]_vars

\* the timers fire, time passes, and every upstream call settles
SpecRateLimitFair ==
    /\ SpecRateLimit
    /\ WF_vars(ResetTokenCounter)
    /\ WF_vars(ResetRequestCounter)
    /\ WF_vars(MinDelayPasses)
    /\ WF_vars(DelayTimerFires)
    /\ WF_vars(RetryTimerFires)
    /\ WF_vars(NextTimerFires)
    /\ WF_vars(UpstreamSettles)

\* C39: every request placed on the queue is resolved or rejected in the end
EveryRequestSettles ==
    \A i \in 1..MaxRequests :
        (nextRequest > i) ~> (i \in resolved \cup rejected)

\* C40: at most one call of super.embedBatch is in flight; the calls are
\* made in the order the requests were queued, a request that was put back
\* before the later ones; and every call was made with requestCount below
\* MAX_REQUESTS_PER_MINUTE and left tokenCount at most MAX_TOKENS_PER_MINUTE
OneCallInOrderWithinLimits ==
    /\ Cardinality(inFlight) <= 1
    /\ \A j, k \in 1..Len(sentLog) : j < k => sentLog[j].id <= sentLog[k].id
    /\ \A k \in 1..Len(sentLog) :
          /\ sentLog[k].requestCount < MAX_REQUESTS_PER_MINUTE
          /\ sentLog[k].tokenCount + sentLog[k].tokens <= MAX_TOKENS_PER_MINUTE
    /\ \A request \in inFlight :
          \A k \in 1..Len(embeddingQueue) : request.id < embeddingQueue[k].id

\* a request was sent again after a 429 while another waited behind it, and
\* the other was sent after it
RetriedBeforeLaterRequest ==
    /\ Len(sentLog) >= 3
    /\ sentLog[1].id = sentLog[2].id
    /\ sentLog[3].id > sentLog[2].id
    /\ n429 = 1

====
